---- MODULE Spec2Model ----
(***************************************************************************)
(* Test orchestration of lethal254/hacktivists_backend: the WebCrawler     *)
(* class that runs test suites (runTestSuite, runTestCase, the dependency  *)
(* gate, the suite statistics) and the operations that run several suites. *)
(*                                                                         *)
(* The repository holds the class twice:                                   *)
(*   Spec        src/src/services/runTScrawler.ts  (sequential             *)
(*               runAllTestSuites, no artifact files)                      *)
(*   SpecRoutes  src/src/routes/crawler.ts:992     (screenshots and logs   *)
(*               written to disk, parallel runAllTestSuites)               *)
(* Both share runTestSuite, canRunTest, recordBlockedTest and the suite    *)
(* statistics; the actions they do not share carry the suffix TS / Routes. *)
(*                                                                         *)
(* JavaScript runs one coroutine at a time and switches only at an await.  *)
(* `running` names the suite task that holds the thread (0: none): an      *)
(* action that resumes a task after an await needs running = 0, the        *)
(* synchronous code that follows runs with running = t, and the next await *)
(* gives the thread back.                                                  *)
(*                                                                         *)
(* Driver calls that open or use a page (launch, newContext, newPage, a    *)
(* step, an assertion, a screenshot) and file writes may fail; closing a   *)
(* page, a context or the browser is taken to succeed.                     *)
(*                                                                         *)
(* A suite is read lazily, as the for-of loops of the code read it: its    *)
(* length when runTestSuite starts, each case when the loop reaches it.    *)
(* The case at position i of a suite has id i.                             *)
(***************************************************************************)
EXTENDS Integers, Sequences, FiniteSets, TLC

\* ---------------------------------------------------------------- bounds
MaxSuites == 2
\* a run of one suite
MaxCases == 3
MaxSteps == 2
MaxAsserts == 2
\* a run of several suites
SmallCases == 1
SmallSteps == 1
SmallAsserts == 1

Tasks == 1..MaxSuites
CaseIds == 1..MaxCases

CasesBound(n) == IF n <= 1 THEN MaxCases ELSE SmallCases
StepsBound(n) == IF n <= 1 THEN MaxSteps ELSE SmallSteps
AssertsBound(n) == IF n <= 1 THEN MaxAsserts ELSE SmallAsserts

\* ---------------------------------------------------------------- values
Merge(r, c) == [f \in DOMAIN r |-> IF f \in DOMAIN c THEN c[f] ELSE r[f]]

NoPage == <<0, 0>>
NoError == "none"

\* A TestRun as the registry and TestSuiteRun.testRuns hold it: the fields
\* that are read again (by: the suite execution that produced it).
Absent == [testCaseId |-> 0, status |-> "ABSENT", completedAt |-> FALSE, by |-> 0]
Stored(testRun, t) ==
  [testCaseId |-> testRun.testCaseId, status |-> testRun.status,
   completedAt |-> testRun.completedAt, by |-> t]

NoTestRun ==
  [testCaseId |-> 0, status |-> "NOT_RUN", completedAt |-> FALSE,
   steps |-> <<>>, assertions |-> <<>>, errorMessage |-> NoError,
   screenshot |-> FALSE, message |-> FALSE]

NoCase == [id |-> 0, dependsOn |-> {}, nSteps |-> 0, nAsserts |-> 0]

NoSuiteRun ==
  [testSuiteId |-> 0, status |-> "NOT_RUN", totalTests |-> 0, passedTests |-> 0,
   failedTests |-> 0, skippedTests |-> 0, blockedTests |-> 0, testRuns |-> <<>>,
   completedAt |-> FALSE]

NoFrame ==
  [pc |-> "idle", nCases |-> 0, i |-> 0, testCase |-> NoCase, canRun |-> FALSE,
   testRun |-> NoTestRun, page |-> NoPage, j |-> 0, k |-> 0,
   assertionsFailed |-> FALSE,
   error |-> NoError,     \* the exception in flight
   ret |-> 0,
   \* history of the current case
   unmet |-> FALSE, stepCalls |-> 0, assertCalls |-> 0, failedStep |-> 0,
   failedAsserts |-> {}, lostShot |-> FALSE,
   \* the error of the failed step and the driver calls that step made
   stepError |-> NoError, failedCalls |-> <<>>,
   \* the log documents saveTestLogs has written for the TestRun of the case
   logDocs |-> 0]

VARIABLES
  browser,          \* this.browser is not null
  currentSuiteRun,  \* this.currentSuiteRun: the TestSuiteRun it points to, 0: null
  suiteRun,         \* the TestSuiteRun objects, by the task that created them
  testRuns,         \* this.testRuns: the run registry, by test case id
  pages,            \* the pages that are open
  context,          \* the browsing context of each suite (parallel run)
  frame,            \* each suite task's position and local variables
  running,          \* the task that holds the thread, 0: none
  api,              \* the public operation that was called
  crawl,            \* the page crawler of services/crawler.ts and its crawlPage call
  exec,             \* one executeStep call of routes/crawler.ts
  scan,             \* one findTestableElements call of services/crawler.ts
  clock,            \* the wall clock and the timestamps of one runTestSuite call
  tcase,            \* one runTestCase call of services/runTScrawler.ts and its steps
  maint,            \* the caches of routes/crawler.ts and one cleanup call
  disc              \* one findInputFields call of services/crawler.ts, node by node

\* The state of the test runner, and the state of the other components.
runner == <<browser, currentSuiteRun, suiteRun, testRuns, pages, context, frame, running, api>>
others == <<crawl, exec, scan, clock, tcase, maint, disc>>
vars == <<runner, others>>

\* services/crawler.ts
MEMORY_THRESHOLD == 1024 * 1024 * 1024
MAX_RETRY_ATTEMPTS == 3

\* The crawler after construction, no crawlPage call in flight.
\* attempts, failedAt: how often the operation handed to retryOperation was
\* invoked, and the invocation whose error is in flight. samples: how often
\* monitorMemoryUsage has read heapUsed; recovery: what the recovery action
\* of the last monitorMemoryUsage call has done.
NoCrawl ==
  [pc |-> "idle", browser |-> FALSE, url |-> "none", heapUsed |-> 0,
   mon |-> "none", retryCount |-> 0, errorCount |-> 0, context |-> "none",
   error |-> NoError, attempts |-> 0, failedAt |-> 0, opened |-> 0, closed |-> 0,
   samples |-> 0, recovery |-> <<>>]

\* ------------------------------------ executeStep of routes/crawler.ts

\* JavaScript's null and undefined, and what `||` and `!` take for false.
Null == "null"
Undefined == "undefined"
Falsy(v) == v \in {Null, Undefined, ""}
OrElse(a, b) == IF Falsy(a) THEN b ELSE a

\* interfaces/types.ts: Action and SelectorType.
Actions == {"navigate", "click", "type", "select", "check", "uncheck", "clear",
            "submit", "hover", "wait", "screenshot", "assert"}
SelectorTypes == {"id", "name", "css", "xpath", "tagName", "className", "linkText"}

\* A Selector: present is FALSE for a step without selector.
NoSelector == [present |-> FALSE, type |-> Undefined, value |-> Undefined]

\* The fixtures of a step: present is FALSE for a step without testData; a
\* key without entry maps to undefined.
FixtureKeys == {"user", ""}
NoFixture == [k \in FixtureKeys |-> Undefined]
NoTestData == [present |-> FALSE, valid |-> NoFixture, invalid |-> NoFixture]

\* obj[key] of JavaScript.
Lookup(map, key) == IF key \in DOMAIN map THEN map[key] ELSE Undefined

NoStep ==
  [action |-> "none", selector |-> NoSelector, value |-> Undefined,
   testData |-> NoTestData, useValidData |-> FALSE, waitForNavigation |-> FALSE,
   timeout |-> 0]

\* buildSelector of services/runTScrawler.ts: id, css and xpath only.
BuildSelectorTS(selector) ==
  IF selector.type = "id" THEN "#" \o selector.value
  ELSE IF selector.type = "css" THEN selector.value
  ELSE IF selector.type = "xpath" THEN "xpath=" \o selector.value
  ELSE selector.value

\* buildSelector of routes/crawler.ts.
BuildSelector(selector) ==
  IF ~selector.present THEN ""
  ELSE IF selector.type = "id" THEN "#" \o selector.value
  ELSE IF selector.type = "name" THEN "[name=\"" \o selector.value \o "\"]"
  ELSE IF selector.type = "css" THEN selector.value
  ELSE IF selector.type = "xpath" THEN "xpath=" \o selector.value
  ELSE IF selector.type = "linkText" THEN "text=" \o selector.value
  ELSE IF selector.type = "className" THEN "." \o selector.value
  ELSE IF selector.type = "tagName" THEN selector.value
  ELSE selector.value

\* getValueFromTestData.
GetValueFromTestData(step) ==
  IF ~step.testData.present THEN Null
  ELSE IF step.useValidData /\ ~Falsy(Lookup(step.testData.valid, step.value))
    THEN Lookup(step.testData.valid, step.value)
  ELSE IF ~step.useValidData /\ ~Falsy(Lookup(step.testData.invalid, step.value))
    THEN Lookup(step.testData.invalid, step.value)
  ELSE Null

\* const value = step.value || this.getValueFromTestData(step)
ResolveValue(step) == OrElse(step.value, GetValueFromTestData(step))

PageUrl == "about:blank"
DriverCall(op, target, arg) == [op |-> op, target |-> target, arg |-> arg]
NoCall == DriverCall("none", "", "")

\* executeStep up to its first await: the driver call it makes, or the
\* error it throws before any driver call.
Dispatch(step) ==
  LET selector == IF step.selector.present THEN BuildSelector(step.selector) ELSE ""
      value == ResolveValue(step)
      Calls(c) == [selector |-> selector, value |-> value, call |-> c, error |-> NoError]
      Throws(e) == [selector |-> selector, value |-> value, call |-> NoCall, error |-> e]
  IN CASE step.action = "navigate" ->
            Calls(DriverCall("goto", "", OrElse(value, PageUrl)))
       [] step.action = "click" -> Calls(DriverCall("click", selector, ""))
       [] step.action = "type" ->
            IF Falsy(value) THEN Throws("missingValue")
            ELSE Calls(DriverCall("fill", selector, value))
       [] step.action = "select" ->
            IF Falsy(value) THEN Throws("missingValue")
            ELSE Calls(DriverCall("selectOption", selector, value))
       [] step.action = "wait" ->
            Calls(DriverCall("waitForTimeout", "",
                             IF step.timeout = 0 THEN 5000 ELSE step.timeout))
       [] OTHER -> Throws("unsupported")

\* No executeStep call in flight.
NoExec ==
  [pc |-> "idle", step |-> NoStep, selector |-> "", value |-> Null,
   calls |-> <<>>, error |-> NoError]

\* ---------------------------- findTestableElements of services/crawler.ts

\* A page: at most one form with its controls, and controls outside it.
NoPageContent == [form |-> <<>>, loose |-> <<>>]

\* No findTestableElements call in flight.
NoScan == [pc |-> "idle", page |-> NoPageContent, elements |-> <<>>]

\* ------------------------------ the timestamps of one runTestSuite call

\* The wall clock in milliseconds, and the runner with the timestamps of its
\* records, no runTestSuite call in flight. A field that is undefined in the
\* program is a field the record does not have.
NoClock ==
  [pc |-> "idle", now |-> 0, ticks |-> 0, cases |-> <<>>, i |-> 0,
   suiteRun |-> [status |-> "NOT_RUN"], testRun |-> [status |-> "NOT_RUN"],
   testRuns |-> <<>>, pushed |-> <<>>]

\* --------------------- the steps of one runTestCase call (runTScrawler.ts)

\* No runTestCase call in flight. calls: the stepNumber of every step handed
\* to executeStep, in the order of the calls; driver: the driver calls made.
NoCaseRun ==
  [pc |-> "idle", steps |-> <<>>, j |-> 0, status |-> "NOT_RUN",
   stepLogs |-> <<>>, screenshot |-> FALSE, error |-> NoError,
   errorMessage |-> NoError, thrown |-> <<>>, calls |-> <<>>, driver |-> <<>>,
   pageOpen |-> FALSE, registered |-> FALSE]

\* ------------------------ cleanup of the WebCrawler of routes/crawler.ts

\* The crawler after construction, nothing queued or cached. op, pc: the
\* operation in flight and its position; batch, pending: the entries
\* processScreenshotQueue took last, and those whose capture has not ended;
\* captured: how often each entry was captured; batches: the batches taken.
NoMaint ==
  [op |-> "none", pc |-> "idle", browser |-> FALSE, responseCache |-> {},
   testRuns |-> {}, screenshotQueue |-> <<>>, batch |-> <<>>, pending |-> {},
   failed |-> FALSE, captured |-> <<>>, batches |-> <<>>, closes |-> 0]

\* -------------------- findInputFields of services/crawler.ts, node by node

\* No discovery is running.
NoDiscovery ==
  [pc |-> "idle", inputs |-> <<>>, k |-> 0, selector |-> [prefix |-> "", rest |-> ""],
   found |-> <<>>, failed |-> {}, threwIn |-> "none"]

\* The state after construction.
Init ==
  /\ browser = FALSE
  /\ currentSuiteRun = 0
  /\ suiteRun = [t \in Tasks |-> NoSuiteRun]
  /\ testRuns = [c \in CaseIds |-> Absent]
  /\ pages = {}
  /\ context = [t \in Tasks |-> "none"]
  /\ frame = [t \in Tasks |-> NoFrame]
  /\ running = 0
  /\ api = [op |-> "none", pc |-> "idle", n |-> 0, cur |-> 0, result |-> <<>>]
  /\ crawl = NoCrawl
  /\ exec = NoExec
  /\ scan = NoScan
  /\ clock = NoClock
  /\ tcase = NoCaseRun
  /\ maint = NoMaint
  /\ disc = NoDiscovery

\* ------------------------------------------------- helpers of the class

\* canRunTest with `dependencyRun && status !== 'PASSED'`: a dependency that
\* has no run does not block.
CanRunTestAbsentOk(dependsOn, reg) ==
  IF dependsOn = {} THEN TRUE
  ELSE \A d \in dependsOn : ~(reg[d] # Absent /\ reg[d].status # "PASSED")

\* canRunTest without its final `return true`.
CanRunTestNoReturn(dependsOn, reg) ==
  IF dependsOn = {} THEN TRUE ELSE FALSE

\* canRunTest that refuses only a FAILED dependency.
CanRunTestOnlyFailed(dependsOn, reg) ==
  IF dependsOn = {} THEN TRUE
  ELSE \A d \in dependsOn : ~(reg[d] = Absent \/ reg[d].status = "FAILED")

\* canRunTest: no dependency, or every dependency has a PASSED run.
CanRunTest(dependsOn, reg) ==
  IF dependsOn = {} THEN TRUE
  ELSE \A d \in dependsOn : ~(reg[d] = Absent \/ reg[d].status # "PASSED")

\* updateSuiteRunStats on the object this.currentSuiteRun points to.
UpdateSuiteRunStats(sr, cur, status) ==
  IF cur = 0 THEN sr
  ELSE CASE status = "PASSED" -> [sr EXCEPT ![cur].passedTests = @ + 1]
         [] status = "FAILED" -> [sr EXCEPT ![cur].failedTests = @ + 1]
         [] status = "SKIPPED" -> [sr EXCEPT ![cur].skippedTests = @ + 1]
         [] status = "BLOCKED" -> [sr EXCEPT ![cur].blockedTests = @ + 1]
         [] OTHER -> sr

\* determineTestSuiteStatus that looks at passedTests first.
DetermineAnyPassed(r) ==
  IF r.passedTests > 0 THEN "PASSED"
  ELSE IF r.failedTests > 0 THEN "FAILED"
  ELSE IF r.passedTests = r.totalTests THEN "PASSED"
  ELSE IF r.blockedTests > 0 THEN "BLOCKED"
  ELSE "FAILED"

\* determineTestSuiteStatus that looks at blockedTests before failedTests.
DetermineBlockedFirst(r) ==
  IF r.blockedTests > 0 THEN "BLOCKED"
  ELSE IF r.failedTests > 0 THEN "FAILED"
  ELSE IF r.passedTests = r.totalTests THEN "PASSED"
  ELSE "FAILED"

\* determineTestSuiteStatus that leaves a run with unprocessed cases as
\* it is.
DetermineUnlessIncomplete(r) ==
  IF r.passedTests + r.failedTests + r.blockedTests + r.skippedTests < r.totalTests
    THEN r.status
  ELSE IF r.failedTests > 0 THEN "FAILED"
  ELSE IF r.passedTests = r.totalTests THEN "PASSED"
  ELSE IF r.blockedTests > 0 THEN "BLOCKED"
  ELSE "FAILED"

\* determineTestSuiteStatus of one TestSuiteRun.
DetermineTestSuiteStatus(r) ==
  IF r.failedTests > 0 THEN "FAILED"
  ELSE IF r.passedTests = r.totalTests THEN "PASSED"
  ELSE IF r.blockedTests > 0 THEN "BLOCKED"
  ELSE "FAILED"

\* The TestSuiteRun that runTestSuite creates.
NewSuiteRun(suiteId, nCases) ==
  [testSuiteId |-> suiteId, status |-> "RUNNING", totalTests |-> nCases,
   passedTests |-> 0, failedTests |-> 0, skippedTests |-> 0, blockedTests |-> 0,
   testRuns |-> <<>>, completedAt |-> FALSE]

\* A TestRun that is created as PASSED and corrected on failure.
NewTestRunPassed(testCase) ==
  [testCaseId |-> testCase.id, status |-> "PASSED", completedAt |-> FALSE,
   steps |-> <<>>, assertions |-> <<>>, errorMessage |-> NoError,
   screenshot |-> FALSE, message |-> FALSE]

\* The TestRun that runTestCase creates.
NewTestRun(testCase) ==
  [testCaseId |-> testCase.id, status |-> "RUNNING", completedAt |-> FALSE,
   steps |-> <<>>, assertions |-> <<>>, errorMessage |-> NoError,
   screenshot |-> FALSE, message |-> FALSE]

\* The TestRun that recordBlockedTest creates.
BlockedTestRun(testCase) ==
  [testCaseId |-> testCase.id, status |-> "BLOCKED", completedAt |-> TRUE,
   steps |-> <<>>, assertions |-> <<>>, errorMessage |-> NoError,
   screenshot |-> FALSE, message |-> TRUE]

\* runTestCase without this.testRuns.set.
RegisterNothing(reg, testRun, t) == reg

\* this.testRuns.set(testCase.id, testRun)
RegisterTestRun(reg, testRun, t) ==
  [reg EXCEPT ![testRun.testCaseId] = Stored(testRun, t)]

\* testRuns.unshift(testRun): the newest TestRun comes first.
PushTestRunFirst(sr, cur, testRun, t) ==
  [sr EXCEPT ![cur].testRuns = <<Stored(testRun, t)>> \o @]

\* this.currentSuiteRun!.testRuns.push(testRun)
PushTestRun(sr, cur, testRun, t) ==
  [sr EXCEPT ![cur].testRuns = Append(@, Stored(testRun, t))]

\* testRun.status = assertionsFailed ? 'FAILED' : 'PASSED'
CaseStatus(assertionsFailed) == IF assertionsFailed THEN "FAILED" ELSE "PASSED"

StepLog(step, success) == [stepId |-> step, success |-> success]
AssertionLog(assertion, success) == [assertionId |-> assertion, success |-> success]

\* An unmet dependency, read off the registry: some id of dependsOn has no
\* run in the registry, or a run whose status is not PASSED.
HasUnmetDependency(dependsOn, reg) ==
  \E d \in dependsOn : reg[d].status = "ABSENT" \/ reg[d].status # "PASSED"

Set(t, changes) == [frame EXCEPT ![t] = Merge(@, changes)]

\* ------------------------------------------------------- runTestSuite

\* runTestSuite up to its first await: the new TestSuiteRun replaces
\* this.currentSuiteRun; the browser is launched when there is none.
RunTestSuiteEntry(t) ==
  /\ running = t
  /\ frame[t].pc = "entry"
  /\ \E nCases \in 0..CasesBound(api.n) :
       /\ suiteRun' = [suiteRun EXCEPT ![t] = NewSuiteRun(t, nCases)]
       /\ currentSuiteRun' = t
       /\ IF browser
            THEN /\ frame' = Set(t, [pc |-> "loop", nCases |-> nCases])
                 /\ running' = t
            ELSE /\ frame' = Set(t, [pc |-> "launch", nCases |-> nCases])
                 /\ running' = 0
  /\ UNCHANGED <<others, browser, testRuns, pages, context, api>>

\* await this.initialize() inside runTestSuite.
SuiteInitializeDone(t) ==
  /\ running = 0
  /\ frame[t].pc = "launch"
  /\ \E ok \in BOOLEAN :
       IF ok
         THEN /\ browser' = TRUE
              /\ frame' = Set(t, [pc |-> "loop"])
         ELSE /\ browser' = browser
              /\ frame' = Set(t, [pc |-> "finally", error |-> "launch"])
  /\ running' = t
  /\ UNCHANGED <<others, currentSuiteRun, suiteRun, testRuns, pages, context, api>>

\* The head of the for-of loop: the next case is read and canRunTest is
\* called on it; the await of its result gives the thread back.
LoopNext(t) ==
  /\ running = t
  /\ frame[t].pc = "loop"
  /\ IF frame[t].i >= frame[t].nCases
       THEN /\ frame' = Set(t, [pc |-> "finally"])
            /\ running' = t
       ELSE /\ \E deps \in SUBSET (1..CasesBound(api.n)),
                  ns \in 0..StepsBound(api.n), na \in 0..AssertsBound(api.n) :
                  LET tc == [id |-> frame[t].i + 1, dependsOn |-> deps,
                             nSteps |-> ns, nAsserts |-> na]
                  IN frame' = Set(t, [pc |-> "gated", i |-> frame[t].i + 1,
                                      testCase |-> tc,
                                      canRun |-> CanRunTest(deps, testRuns),
                                      unmet |-> HasUnmetDependency(deps, testRuns),
                                      testRun |-> NoTestRun, page |-> NoPage,
                                      j |-> 0, k |-> 0, assertionsFailed |-> FALSE,
                                      error |-> NoError, stepCalls |-> 0,
                                      assertCalls |-> 0, failedStep |-> 0,
                                      failedAsserts |-> {}, lostShot |-> FALSE,
                                      stepError |-> NoError, failedCalls |-> <<>>,
                                      logDocs |-> 0])
            /\ running' = 0
  /\ UNCHANGED <<others, browser, currentSuiteRun, suiteRun, testRuns, pages, context, api>>

\* recordBlockedTest, for a case canRunTest refused.
RecordBlockedTest(t) ==
  /\ running = 0
  /\ frame[t].pc = "gated"
  /\ ~frame[t].canRun
  /\ LET testRun == BlockedTestRun(frame[t].testCase)
     IN /\ testRuns' = RegisterTestRun(testRuns, testRun, t)
        /\ suiteRun' = UpdateSuiteRunStats(
                         PushTestRun(suiteRun, currentSuiteRun, testRun, t),
                         currentSuiteRun, "BLOCKED")
        /\ frame' = Set(t, [pc |-> "loop", testRun |-> testRun])
  /\ running' = t
  /\ UNCHANGED <<others, browser, currentSuiteRun, pages, context, api>>

\* The finally block of runTestSuite and what follows it: completedAt,
\* duration and status are written to the object this.currentSuiteRun
\* points to; a pending exception is rethrown, else that object is returned.
SuiteFinally(t) ==
  /\ running = t
  /\ frame[t].pc = "finally"
  /\ suiteRun' = IF currentSuiteRun = 0 THEN suiteRun
                 ELSE [suiteRun EXCEPT ![currentSuiteRun] =
                         Merge(@, [completedAt |-> TRUE,
                                   status |-> DetermineTestSuiteStatus(@)])]
  /\ frame' = [frame EXCEPT ![t] =
                 Merge(NoFrame,
                       IF frame[t].error # NoError
                         THEN [pc |-> "threw", error |-> frame[t].error]
                         ELSE [pc |-> "returned", ret |-> currentSuiteRun])]
  /\ running' = 0
  /\ UNCHANGED <<others, browser, currentSuiteRun, testRuns, pages, context, api>>

\* -------------------------------------------------------- runTestCase

\* runTestCase up to its first await: the TestRun is created and
\* browser.newPage() is called.
StartTestCase(t) ==
  /\ running = 0
  /\ frame[t].pc = "gated"
  /\ frame[t].canRun
  /\ frame' = Set(t, [pc |-> "newPage", testRun |-> NewTestRun(frame[t].testCase)])
  /\ UNCHANGED <<others, browser, currentSuiteRun, suiteRun, testRuns, pages, context, running, api>>

\* newPage() of runTScrawler.ts is inside the try of runTestCase: its
\* failure goes to the catch of runTestCase.
NewPageDoneTS(t) ==
  /\ running = 0
  /\ frame[t].pc = "newPage"
  /\ \E ok \in BOOLEAN :
       IF ok
         THEN /\ pages' = pages \cup {<<t, frame[t].i>>}
              /\ frame' = Set(t, [pc |-> "steps", page |-> <<t, frame[t].i>>])
         ELSE /\ pages' = pages
              /\ frame' = Set(t, [pc |-> "catch", error |-> "newPage"])
  /\ running' = t
  /\ UNCHANGED <<others, browser, currentSuiteRun, suiteRun, testRuns, context, api>>

\* The head of the loop over the steps: the next step is handed to
\* executeStep, or the loop over the assertions begins.
StepLoop(t) ==
  /\ running = t
  /\ frame[t].pc = "steps"
  /\ IF frame[t].j < frame[t].testCase.nSteps
       THEN /\ frame' = Set(t, [pc |-> "step", stepCalls |-> frame[t].stepCalls + 1])
            /\ running' = 0
       ELSE /\ frame' = Set(t, [pc |-> "asserts"])
            /\ running' = t
  /\ UNCHANGED <<others, browser, currentSuiteRun, suiteRun, testRuns, pages, context, api>>

\* executeStep returns (the step is logged as successful) or throws (the
\* handler of the step calls captureScreenshot and awaits it).
StepDone(t) ==
  /\ running = 0
  /\ frame[t].pc = "step"
  /\ \E ok \in BOOLEAN :
       IF ok
         THEN /\ frame' = Set(t, [pc |-> "steps", j |-> frame[t].j + 1,
                                  testRun |-> [frame[t].testRun EXCEPT !.steps =
                                     Append(@, StepLog(frame[t].j + 1, TRUE))]])
              /\ running' = t
         ELSE /\ frame' = Set(t, [pc |-> "stepShot", failedStep |-> frame[t].j + 1])
              /\ running' = 0
  /\ UNCHANGED <<others, browser, currentSuiteRun, suiteRun, testRuns, pages, context, api>>

\* The handler of a failed step after captureScreenshot: the screenshot is
\* stored, the failed step is logged and the step's error is rethrown; when
\* captureScreenshot throws, its error leaves the handler instead.
StepShotDone(t) ==
  /\ running = 0
  /\ frame[t].pc = "stepShot"
  /\ \E ok \in BOOLEAN :
       IF ok
         THEN frame' = Set(t, [pc |-> "catch", error |-> "step",
                               testRun |-> [frame[t].testRun EXCEPT
                                  !.screenshot = TRUE,
                                  !.steps = Append(@, StepLog(frame[t].failedStep, FALSE))]])
         ELSE frame' = Set(t, [pc |-> "catch", error |-> "screenshot"])
  /\ running' = t
  /\ UNCHANGED <<others, browser, currentSuiteRun, suiteRun, testRuns, pages, context, api>>

\* The head of the loop over the assertions: the next assertion is handed
\* to executeAssertion, or page.close() is called.
AssertLoop(t) ==
  /\ running = t
  /\ frame[t].pc = "asserts"
  /\ IF frame[t].k < frame[t].testCase.nAsserts
       THEN frame' = Set(t, [pc |-> "assert", assertCalls |-> frame[t].assertCalls + 1])
       ELSE frame' = Set(t, [pc |-> "close"])
  /\ running' = 0
  /\ UNCHANGED <<others, browser, currentSuiteRun, suiteRun, testRuns, pages, context, api>>

\* The assertion loop with `assertionsFailed = !passed`: the last assertion
\* decides.
LogAssertionLastWins(fr, passed) ==
  Merge(fr, [pc |-> "asserts", k |-> fr.k + 1,
             assertionsFailed |-> ~passed,
             failedAsserts |-> IF passed THEN fr.failedAsserts
                               ELSE fr.failedAsserts \cup {fr.k + 1},
             testRun |-> [fr.testRun EXCEPT !.assertions =
                            Append(@, AssertionLog(fr.k + 1, passed))]])

\* What runTestCase does with the outcome of executeAssertion.
LogAssertion(fr, passed) ==
  Merge(fr, [pc |-> "asserts", k |-> fr.k + 1,
             assertionsFailed |-> (fr.assertionsFailed \/ ~passed),
             failedAsserts |-> IF passed THEN fr.failedAsserts
                               ELSE fr.failedAsserts \cup {fr.k + 1},
             testRun |-> [fr.testRun EXCEPT !.assertions =
                            Append(@, AssertionLog(fr.k + 1, passed))]])

\* executeAssertion of runTScrawler.ts returns or throws.
AssertDoneTS(t) ==
  /\ running = 0
  /\ frame[t].pc = "assert"
  /\ \E passed \in BOOLEAN :
       frame' = [frame EXCEPT ![t] = LogAssertion(@, passed)]
  /\ running' = t
  /\ UNCHANGED <<others, browser, currentSuiteRun, suiteRun, testRuns, pages, context, api>>

\* The end of runTestCase in runTScrawler.ts, from the finally block on:
\* completedAt and duration, then the registry and the suite's list.
FinishTestCaseTS(fr, reg, sr, cur, t) ==
  LET testRun == [fr.testRun EXCEPT !.completedAt = TRUE]
  IN [frame |-> Merge(fr, [pc |-> "loop", testRun |-> testRun]),
      testRuns |-> RegisterTestRun(reg, testRun, t),
      suiteRun |-> PushTestRun(sr, cur, testRun, t)]

\* page.close() has returned: the status follows the assertions, the
\* statistics are updated and the run is recorded.
ClosePageTS(t) ==
  /\ running = 0
  /\ frame[t].pc = "close"
  /\ LET status == CaseStatus(frame[t].assertionsFailed)
         fr == Merge(frame[t], [testRun |-> [frame[t].testRun EXCEPT !.status = status]])
         fin == FinishTestCaseTS(fr, testRuns,
                  UpdateSuiteRunStats(suiteRun, currentSuiteRun, status),
                  currentSuiteRun, t)
     IN /\ frame' = [frame EXCEPT ![t] = fin.frame]
        /\ testRuns' = fin.testRuns
        /\ suiteRun' = fin.suiteRun
  /\ pages' = pages \ {frame[t].page}
  /\ running' = t
  /\ UNCHANGED <<others, browser, currentSuiteRun, context, api>>

\* The catch block of runTestCase in runTScrawler.ts: FAILED, the error
\* message, the statistics; then the run is recorded.
CatchTS(t) ==
  /\ running = t
  /\ frame[t].pc = "catch"
  /\ LET fr == Merge(frame[t], [error |-> NoError,
                       testRun |-> [frame[t].testRun EXCEPT
                          !.status = "FAILED", !.errorMessage = frame[t].error]])
         fin == FinishTestCaseTS(fr, testRuns,
                  UpdateSuiteRunStats(suiteRun, currentSuiteRun, "FAILED"),
                  currentSuiteRun, t)
     IN /\ frame' = [frame EXCEPT ![t] = fin.frame]
        /\ testRuns' = fin.testRuns
        /\ suiteRun' = fin.suiteRun
  /\ running' = t
  /\ UNCHANGED <<others, browser, currentSuiteRun, pages, context, api>>

\* ------------------------------- runTestCase of src/src/routes/crawler.ts

\* newPage() of routes/crawler.ts is called before the try of runTestCase:
\* its failure leaves runTestCase and reaches the finally of runTestSuite.
NewPageDoneRoutes(t) ==
  /\ running = 0
  /\ frame[t].pc = "newPage"
  /\ \E ok \in BOOLEAN :
       IF ok
         THEN /\ pages' = pages \cup {<<t, frame[t].i>>}
              /\ frame' = Set(t, [pc |-> "steps", page |-> <<t, frame[t].i>>])
         ELSE /\ pages' = pages
              /\ frame' = Set(t, [pc |-> "finally", error |-> "newPage"])
  /\ running' = t
  /\ UNCHANGED <<others, browser, currentSuiteRun, suiteRun, testRuns, context, api>>

\* The steps a case of the suite runs may hold.
CaseSteps ==
  {[NoStep EXCEPT !.action = a, !.value = v] :
     a \in {"click", "type", "select", "hover"}, v \in {Undefined, "hello"}}

\* executeStep of routes/crawler.ts returns (the step is logged as
\* successful) or throws, before its driver call or in it (the handler of
\* the step calls captureScreenshot and awaits it).
StepDoneRoutes(t) ==
  /\ running = 0
  /\ frame[t].pc = "step"
  /\ \E step \in CaseSteps, ok \in BOOLEAN :
       LET d == Dispatch(step)
       IN IF d.error = NoError /\ ok
            THEN /\ frame' = Set(t, [pc |-> "steps", j |-> frame[t].j + 1,
                                     testRun |-> [frame[t].testRun EXCEPT !.steps =
                                        Append(@, StepLog(frame[t].j + 1, TRUE))]])
                 /\ running' = t
            ELSE /\ frame' = Set(t, [pc |-> "stepShot", failedStep |-> frame[t].j + 1,
                                     stepError |-> IF d.error = NoError THEN "driver"
                                                   ELSE d.error,
                                     failedCalls |-> IF d.error = NoError THEN <<d.call>>
                                                     ELSE <<>>])
                 /\ running' = 0
  /\ UNCHANGED <<others, browser, currentSuiteRun, suiteRun, testRuns, pages, context, api>>

\* executeAssertion of routes/crawler.ts returns (TRUE) or throws (FALSE).
\* check: the assertion's own check passes; capture: the assertion asks for
\* a screenshot on success; successShot, failShot: captureScreenshot works
\* in the try block, in the catch block. The catch block throws whether or
\* not its screenshot was captured.
ExecuteAssertionRoutes(check, capture, successShot, failShot) ==
  IF check /\ (~capture \/ successShot) THEN TRUE
  ELSE IF failShot THEN FALSE ELSE FALSE

AssertDoneRoutes(t) ==
  /\ running = 0
  /\ frame[t].pc = "assert"
  /\ \E check \in BOOLEAN, capture \in BOOLEAN, successShot \in BOOLEAN, failShot \in BOOLEAN :
       LET passed == ExecuteAssertionRoutes(check, capture, successShot, failShot)
       IN frame' = [frame EXCEPT ![t] =
                      Merge(LogAssertion(@, passed),
                            [lostShot |-> (@.lostShot \/ (~passed /\ ~failShot))])]
  /\ running' = t
  /\ UNCHANGED <<others, browser, currentSuiteRun, suiteRun, testRuns, pages, context, api>>

\* The finally block of runTestCase in routes/crawler.ts up to its await:
\* completedAt and duration are set and saveTestLogs is called.
CaseFinallyRoutes(fr) ==
  Merge(fr, [pc |-> "finallySave", testRun |-> [fr.testRun EXCEPT !.completedAt = TRUE]])

\* page.close() has returned: the status follows the assertions and the
\* statistics are updated; the finally block follows.
ClosePageRoutes(t) ==
  /\ running = 0
  /\ frame[t].pc = "close"
  /\ LET status == CaseStatus(frame[t].assertionsFailed)
     IN /\ frame' = [frame EXCEPT ![t] =
                       CaseFinallyRoutes(Merge(@, [testRun |-> [@.testRun EXCEPT !.status = status]]))]
        /\ suiteRun' = UpdateSuiteRunStats(suiteRun, currentSuiteRun, status)
  /\ pages' = pages \ {frame[t].page}
  /\ running' = 0
  /\ UNCHANGED <<others, browser, currentSuiteRun, testRuns, context, api>>

\* The catch block of runTestCase in routes/crawler.ts up to its first
\* await: FAILED, the error message, then captureScreenshot is called.
CatchRoutes(t) ==
  /\ running = t
  /\ frame[t].pc = "catch"
  /\ frame' = Set(t, [pc |-> "catchShot", error |-> NoError,
                      testRun |-> [frame[t].testRun EXCEPT
                         !.status = "FAILED", !.errorMessage = frame[t].error]])
  /\ running' = 0
  /\ UNCHANGED <<others, browser, currentSuiteRun, suiteRun, testRuns, pages, context, api>>

\* The catch block after captureScreenshot: the screenshot is stored and
\* saveTestLogs is called; when captureScreenshot throws, its error leaves
\* the catch block and the finally block runs.
CatchShotDone(t) ==
  /\ running = 0
  /\ frame[t].pc = "catchShot"
  /\ \E ok \in BOOLEAN :
       IF ok
         THEN frame' = Set(t, [pc |-> "catchSave",
                               testRun |-> [frame[t].testRun EXCEPT !.screenshot = TRUE]])
         ELSE frame' = [frame EXCEPT ![t] =
                          CaseFinallyRoutes(Merge(@, [error |-> "screenshot"]))]
  /\ UNCHANGED <<others, browser, currentSuiteRun, suiteRun, testRuns, pages, context, running, api>>

\* The catch block after saveTestLogs: the statistics are updated; when
\* saveTestLogs throws, its error leaves the catch block. The finally block
\* runs in both cases.
CatchSaveDone(t) ==
  /\ running = 0
  /\ frame[t].pc = "catchSave"
  /\ \E ok \in BOOLEAN :
       IF ok
         THEN /\ suiteRun' = UpdateSuiteRunStats(suiteRun, currentSuiteRun, "FAILED")
              /\ frame' = [frame EXCEPT ![t] =
                             CaseFinallyRoutes(Merge(@, [logDocs |-> @.logDocs + 1]))]
         ELSE /\ suiteRun' = suiteRun
              /\ frame' = [frame EXCEPT ![t] =
                             CaseFinallyRoutes(Merge(@, [error |-> "log"]))]
  /\ UNCHANGED <<others, browser, currentSuiteRun, testRuns, pages, context, running, api>>

\* The finally block after saveTestLogs: an exception (its own, or the one
\* that left the catch block) leaves runTestCase; otherwise the run is put
\* in the registry and pushed on the suite's list.
FinallySaveDone(t) ==
  /\ running = 0
  /\ frame[t].pc = "finallySave"
  /\ \E ok \in BOOLEAN :
       IF ~ok \/ frame[t].error # NoError
         THEN /\ frame' = Set(t, [pc |-> "finally",
                                  error |-> IF ok THEN frame[t].error ELSE "log",
                                  logDocs |-> frame[t].logDocs + (IF ok THEN 1 ELSE 0)])
              /\ testRuns' = testRuns
              /\ suiteRun' = suiteRun
         ELSE /\ frame' = Set(t, [pc |-> "loop", logDocs |-> frame[t].logDocs + 1])
              /\ testRuns' = RegisterTestRun(testRuns, frame[t].testRun, t)
              /\ suiteRun' = PushTestRun(suiteRun, currentSuiteRun, frame[t].testRun, t)
  /\ running' = t
  /\ UNCHANGED <<others, browser, currentSuiteRun, pages, context, api>>

\* ------------------------- runAllTestSuites of src/src/routes/crawler.ts

\* testSuites.map(async ...): every suite's callback runs up to its await
\* of browser.newContext(); Promise.all waits for all of them.
FanOut(n) ==
  [t \in Tasks |-> IF t <= n THEN Merge(NoFrame, [pc |-> "ctx"]) ELSE frame[t]]

RunAllTestSuitesRoutes ==
  /\ api.pc = "idle"
  /\ \E n \in 0..MaxSuites :
       IF browser
         THEN /\ api' = [api EXCEPT !.op = "runAllParallel", !.n = n, !.pc = "all"]
              /\ frame' = FanOut(n)
         ELSE /\ api' = [api EXCEPT !.op = "runAllParallel", !.n = n, !.pc = "init"]
              /\ frame' = frame
  /\ UNCHANGED <<others, browser, currentSuiteRun, suiteRun, testRuns, pages, context, running>>

\* await this.initialize() in runAllTestSuites: on failure the exception is
\* logged and rethrown.
RunAllInitializeDoneRoutes ==
  /\ api.op = "runAllParallel"
  /\ api.pc = "init"
  /\ \E ok \in BOOLEAN :
       IF ok
         THEN /\ browser' = TRUE
              /\ api' = [api EXCEPT !.pc = "all"]
              /\ frame' = FanOut(api.n)
         ELSE /\ browser' = FALSE
              /\ api' = [api EXCEPT !.pc = "threw"]
              /\ frame' = frame
  /\ UNCHANGED <<others, currentSuiteRun, suiteRun, testRuns, pages, context, running>>

\* browser.newContext() of one suite's callback: then runTestSuite is
\* called; a failure rejects the callback.
NewContextDone(t) ==
  /\ running = 0
  /\ frame[t].pc = "ctx"
  /\ \E ok \in BOOLEAN :
       IF ok
         THEN /\ context' = [context EXCEPT ![t] = "open"]
              /\ frame' = Set(t, [pc |-> "entry"])
              /\ running' = t
         ELSE /\ context' = context
              /\ frame' = Set(t, [pc |-> "threw", error |-> "newContext"])
              /\ running' = 0
  /\ UNCHANGED <<others, browser, currentSuiteRun, suiteRun, testRuns, pages, api>>

\* await this.runTestSuite(suite) has returned in a callback:
\* context.close() is called.
AwaitedSuiteRun(t) ==
  /\ api.op = "runAllParallel"
  /\ running = 0
  /\ frame[t].pc = "returned"
  /\ frame' = Set(t, [pc |-> "ctxClose"])
  /\ UNCHANGED <<others, browser, currentSuiteRun, suiteRun, testRuns, pages, context, running, api>>

\* context.close() has returned: the callback returns its suiteRun.
ContextCloseDone(t) ==
  /\ running = 0
  /\ frame[t].pc = "ctxClose"
  /\ context' = [context EXCEPT ![t] = "closed"]
  /\ frame' = Set(t, [pc |-> "done"])
  /\ UNCHANGED <<others, browser, currentSuiteRun, suiteRun, testRuns, pages, running, api>>

\* Promise.all resolves when every callback has returned: runAllTestSuites
\* returns the callbacks' results in the order of the suites.
RunAllResolved ==
  /\ api.op = "runAllParallel"
  /\ api.pc = "all"
  /\ running = 0
  /\ \A t \in 1..api.n : frame[t].pc = "done"
  /\ api' = [api EXCEPT !.pc = "done", !.result = [t \in 1..api.n |-> frame[t].ret]]
  /\ UNCHANGED <<others, browser, currentSuiteRun, suiteRun, testRuns, pages, context, frame, running>>

\* Promise.all rejects as soon as one callback has thrown: runAllTestSuites
\* logs and rethrows while the other callbacks go on.
RunAllRejected ==
  /\ api.op = "runAllParallel"
  /\ api.pc = "all"
  /\ running = 0
  /\ \E t \in 1..api.n : frame[t].pc = "threw"
  /\ api' = [api EXCEPT !.pc = "threw"]
  /\ UNCHANGED <<others, browser, currentSuiteRun, suiteRun, testRuns, pages, context, frame, running>>

\* ------------------------------------------------- the public operations

\* initialize(), called by a route before it runs suites.
Initialize ==
  /\ api.pc = "idle"
  /\ ~browser
  /\ \E ok \in BOOLEAN : browser' = ok
  /\ UNCHANGED <<others, currentSuiteRun, suiteRun, testRuns, pages, context, frame, running, api>>

\* Hands suite s to runTestSuite.
CallRunTestSuite(s) == [frame EXCEPT ![s] = Merge(NoFrame, [pc |-> "entry"])]

\* runTestSuiteById that launches the browser before it looks the suite up.
RunTestSuiteByIdLaunchFirst ==
  /\ api.pc = "idle"
  /\ browser' = TRUE
  /\ \E found \in BOOLEAN :
       IF found
         THEN /\ api' = [api EXCEPT !.op = "byId", !.pc = "suite", !.n = 1, !.cur = 1]
              /\ frame' = CallRunTestSuite(1)
              /\ running' = 1
         ELSE /\ api' = [api EXCEPT !.op = "byId", !.pc = "threw"]
              /\ frame' = frame
              /\ running' = running
  /\ UNCHANGED <<others, currentSuiteRun, suiteRun, testRuns, pages, context>>

\* runTestSuiteById: the suite is looked up; an unknown id throws, a known
\* one is run by runTestSuite.
RunTestSuiteById ==
  /\ api.pc = "idle"
  /\ \E found \in BOOLEAN :
       IF found
         THEN /\ api' = [api EXCEPT !.op = "byId", !.pc = "suite", !.n = 1, !.cur = 1]
              /\ frame' = CallRunTestSuite(1)
              /\ running' = 1
         ELSE /\ api' = [api EXCEPT !.op = "byId", !.pc = "threw"]
              /\ frame' = frame
              /\ running' = running
  /\ UNCHANGED <<others, browser, currentSuiteRun, suiteRun, testRuns, pages, context>>

\* runTestSuiteById after runTestSuite: its result is returned, its
\* exception is logged and rethrown.
RunTestSuiteByIdDone ==
  /\ api.op = "byId"
  /\ api.pc = "suite"
  /\ running = 0
  /\ frame[1].pc \in {"returned", "threw"}
  /\ api' = IF frame[1].pc = "returned"
              THEN [api EXCEPT !.pc = "done", !.result = <<frame[1].ret>>]
              ELSE [api EXCEPT !.pc = "threw"]
  /\ UNCHANGED <<others, browser, currentSuiteRun, suiteRun, testRuns, pages, context, frame, running>>

\* The loop of runAllTestSuites without the finally block: after the last
\* suite the operation returns.
NextSuiteNoCleanup(a) ==
  IF a.cur < a.n
    THEN [api |-> [a EXCEPT !.pc = "suite", !.cur = a.cur + 1],
          frame |-> CallRunTestSuite(a.cur + 1), running |-> a.cur + 1]
    ELSE [api |-> [a EXCEPT !.pc = "done"], frame |-> frame, running |-> 0]

\* The loop of the sequential runAllTestSuites: the next suite is handed
\* to runTestSuite; after the last one cleanup() closes the browser.
NextSuiteOrCleanup(a) ==
  IF a.cur < a.n
    THEN [api |-> [a EXCEPT !.pc = "suite", !.cur = a.cur + 1],
          frame |-> CallRunTestSuite(a.cur + 1), running |-> a.cur + 1]
    ELSE [api |-> [a EXCEPT !.pc = "cleanup"], frame |-> frame, running |-> 0]

\* runAllTestSuites of runTScrawler.ts up to its first await.
RunAllTestSuitesTS ==
  /\ api.pc = "idle"
  /\ \E n \in 0..MaxSuites :
       LET a == [api EXCEPT !.op = "runAll", !.n = n]
       IN IF browser
            THEN /\ api' = NextSuiteOrCleanup(a).api
                 /\ frame' = NextSuiteOrCleanup(a).frame
                 /\ running' = NextSuiteOrCleanup(a).running
            ELSE /\ api' = [a EXCEPT !.pc = "init"]
                 /\ frame' = frame
                 /\ running' = running
  /\ UNCHANGED <<others, browser, currentSuiteRun, suiteRun, testRuns, pages, context>>

\* await this.initialize() in runAllTestSuites: on failure the exception
\* passes the catch and the finally (cleanup finds no browser).
RunAllInitializeDoneTS ==
  /\ api.op = "runAll"
  /\ api.pc = "init"
  /\ \E ok \in BOOLEAN :
       IF ok
         THEN /\ browser' = TRUE
              /\ api' = NextSuiteOrCleanup(api).api
              /\ frame' = NextSuiteOrCleanup(api).frame
              /\ running' = NextSuiteOrCleanup(api).running
         ELSE /\ browser' = FALSE
              /\ api' = [api EXCEPT !.pc = "threw"]
              /\ frame' = frame
              /\ running' = running
  /\ UNCHANGED <<others, currentSuiteRun, suiteRun, testRuns, pages, context>>

\* await this.runTestSuite(suite) has returned: the run is pushed and the
\* loop goes on.
SuiteJoinedTS ==
  /\ api.op = "runAll"
  /\ api.pc = "suite"
  /\ running = 0
  /\ frame[api.cur].pc = "returned"
  /\ LET a == [api EXCEPT !.result = Append(@, frame[api.cur].ret)]
     IN /\ api' = NextSuiteOrCleanup(a).api
        /\ frame' = NextSuiteOrCleanup(a).frame
        /\ running' = NextSuiteOrCleanup(a).running
  /\ UNCHANGED <<others, browser, currentSuiteRun, suiteRun, testRuns, pages, context>>

\* cleanup() of runTScrawler.ts: the browser, and every page with it, is
\* closed and the handle is set to null; runAllTestSuites returns.
CleanupDoneTS ==
  /\ api.op = "runAll"
  /\ api.pc = "cleanup"
  /\ browser' = FALSE
  /\ pages' = {}
  /\ api' = [api EXCEPT !.pc = "done"]
  /\ UNCHANGED <<others, currentSuiteRun, suiteRun, testRuns, context, frame, running>>

\* ------------------------------------------------------ specifications

Common(t) ==
  \/ RunTestSuiteEntry(t)
  \/ SuiteInitializeDone(t)
  \/ LoopNext(t)
  \/ RecordBlockedTest(t)
  \/ StartTestCase(t)
  \/ StepLoop(t)
  \/ StepShotDone(t)
  \/ AssertLoop(t)
  \/ SuiteFinally(t)

Next ==
  \/ Initialize
  \/ RunTestSuiteById
  \/ RunTestSuiteByIdDone
  \/ RunAllTestSuitesTS
  \/ RunAllInitializeDoneTS
  \/ SuiteJoinedTS
  \/ CleanupDoneTS
  \/ \E t \in Tasks :
       \/ Common(t)
       \/ StepDone(t)
       \/ NewPageDoneTS(t)
       \/ AssertDoneTS(t)
       \/ ClosePageTS(t)
       \/ CatchTS(t)

\* The WebCrawler of src/src/services/runTScrawler.ts.
Spec == Init /\ [][Next]_vars

NextRoutes ==
  \/ Initialize
  \/ RunTestSuiteById
  \/ RunTestSuiteByIdDone
  \/ RunAllTestSuitesRoutes
  \/ RunAllInitializeDoneRoutes
  \/ RunAllResolved
  \/ RunAllRejected
  \/ \E t \in Tasks :
       \/ Common(t)
       \/ NewPageDoneRoutes(t)
       \/ StepDoneRoutes(t)
       \/ AssertDoneRoutes(t)
       \/ ClosePageRoutes(t)
       \/ CatchRoutes(t)
       \/ CatchShotDone(t)
       \/ CatchSaveDone(t)
       \/ FinallySaveDone(t)
       \/ NewContextDone(t)
       \/ AwaitedSuiteRun(t)
       \/ ContextCloseDone(t)

\* The WebCrawler of src/src/routes/crawler.ts (the class at line 992).
SpecRoutes == Init /\ [][NextRoutes]_vars

\* ------------------------------------ crawlPage of services/crawler.ts:48

Urls == {"", "not a url", "http://site/"}
HeapSamples == {MEMORY_THRESHOLD - 1, MEMORY_THRESHOLD, MEMORY_THRESHOLD + 1}

\* validateUrl that accepts every string.
ValidateUrlAny(url) == TRUE

\* validateUrl: new URL(url) does not throw.
ValidateUrl(url) == url = "http://site/"

SetCrawl(changes) == Merge(crawl, changes)

\* retryOperation calls operation(): the operation begins with newContext.
InvokeOperation(c) ==
  Merge(c, [pc |-> "newContext", attempts |-> c.attempts + 1,
            context |-> "none", error |-> NoError])

\* The operation has thrown: the catch block of retryOperation.
OperationThrew(c, error) ==
  Merge(c, [pc |-> "retry", error |-> error, failedAt |-> c.attempts])

\* initialize() of the crawler.
CrawlInitialize ==
  /\ crawl.pc = "idle"
  /\ ~crawl.browser
  /\ \E ok \in BOOLEAN : crawl' = SetCrawl([browser |-> ok])
  /\ UNCHANGED <<runner, exec, scan, clock, tcase, maint, disc>>

\* crawlPage up to its first await: the url is validated, the browser must
\* be there, monitorMemoryUsage is called.
CrawlPage ==
  /\ crawl.pc = "idle"
  /\ \E url \in Urls :
       crawl' = IF url = "" \/ ~ValidateUrl(url)
                  THEN SetCrawl([pc |-> "threw", url |-> url, error |-> "invalidUrl"])
                ELSE IF ~crawl.browser
                  THEN SetCrawl([pc |-> "threw", url |-> url, error |-> "noBrowser"])
                ELSE SetCrawl([pc |-> "monitor", url |-> url, mon |-> "pre"])
  /\ UNCHANGED <<runner, exec, scan, clock, tcase, maint, disc>>

\* What follows a monitorMemoryUsage that returned: the call before
\* retryOperation is followed by the first invocation of the operation, the
\* call in the finally block of the operation ends the operation.
AfterMonitor(c) ==
  IF c.mon = "pre" THEN InvokeOperation(c)
  ELSE IF c.error = NoError THEN Merge(c, [pc |-> "returned"])
  ELSE OperationThrew(c, c.error)

\* What follows a monitorMemoryUsage that threw.
MonitorThrew(c) ==
  IF c.mon = "pre" THEN Merge(c, [pc |-> "threw", error |-> "recovery"])
  ELSE OperationThrew(c, "recovery")

\* `memoryUsage.heapUsed >= MEMORY_THRESHOLD`
AtOrAboveThreshold(heapUsed) == heapUsed >= MEMORY_THRESHOLD

\* `memoryUsage.heapUsed > MEMORY_THRESHOLD`
AboveThreshold(heapUsed) == heapUsed > MEMORY_THRESHOLD

\* monitorMemoryUsage: heapUsed is sampled; above the threshold
\* recoveryAction is awaited, which begins with close().
MonitorMemoryUsage ==
  /\ crawl.pc = "monitor"
  /\ \E heap \in HeapSamples :
       LET sampled == SetCrawl([heapUsed |-> heap, samples |-> crawl.samples + 1,
                                recovery |-> <<>>])
       IN crawl' = IF AboveThreshold(heap)
                     THEN Merge(sampled, [pc |-> "recoveryClose"])
                     ELSE AfterMonitor(sampled)
  /\ UNCHANGED <<runner, exec, scan, clock, tcase, maint, disc>>

\* recoveryAction: close() has closed the browser and set the handle to
\* null; the delay begins.
RecoveryCloseDone ==
  /\ crawl.pc = "recoveryClose"
  /\ crawl' = SetCrawl([pc |-> "recoveryDelay", browser |-> FALSE,
                        recovery |-> Append(crawl.recovery, "close")])
  /\ UNCHANGED <<runner, exec, scan, clock, tcase, maint, disc>>

\* recoveryAction: the delay is over; initialize() is called.
RecoveryDelayDone ==
  /\ crawl.pc = "recoveryDelay"
  /\ crawl' = SetCrawl([pc |-> "recoveryInitialize",
                        recovery |-> Append(crawl.recovery, "delay")])
  /\ UNCHANGED <<runner, exec, scan, clock, tcase, maint, disc>>

\* recoveryAction: initialize() has launched the browser; a failed launch
\* is rethrown and leaves this.browser null.
RecoveryInitializeDone ==
  /\ crawl.pc = "recoveryInitialize"
  /\ \E ok \in BOOLEAN :
       LET done == SetCrawl([browser |-> ok,
                             recovery |-> Append(crawl.recovery, "initialize")])
       IN crawl' = IF ok THEN AfterMonitor(done) ELSE MonitorThrew(done)
  /\ UNCHANGED <<runner, exec, scan, clock, tcase, maint, disc>>

\* this.browser!.newContext(): without a browser, or when the driver fails,
\* the operation throws.
CrawlNewContextDone ==
  /\ crawl.pc = "newContext"
  /\ \E ok \in BOOLEAN :
       crawl' = IF crawl.browser /\ ok
                  THEN SetCrawl([pc |-> "newPage", context |-> "open",
                                 opened |-> crawl.opened + 1])
                  ELSE OperationThrew(crawl, "newContext")
  /\ UNCHANGED <<runner, exec, scan, clock, tcase, maint, disc>>

\* context.newPage(), before the try block of the operation.
CrawlNewPageDone ==
  /\ crawl.pc = "newPage"
  /\ \E ok \in BOOLEAN :
       crawl' = IF ok THEN SetCrawl([pc |-> "work"])
                ELSE OperationThrew(crawl, "newPage")
  /\ UNCHANGED <<runner, exec, scan, clock, tcase, maint, disc>>

\* The try block of the operation: goto, title, findTestableElements; then
\* the finally block calls context.close().
CrawlWorkDone ==
  /\ crawl.pc = "work"
  /\ \E ok \in BOOLEAN :
       crawl' = SetCrawl([pc |-> "close", error |-> IF ok THEN NoError ELSE "page"])
  /\ UNCHANGED <<runner, exec, scan, clock, tcase, maint, disc>>

\* context.close() has returned: monitorMemoryUsage is called.
CrawlContextCloseDone ==
  /\ crawl.pc = "close"
  /\ crawl' = SetCrawl([pc |-> "monitor", mon |-> "post", context |-> "closed",
                        closed |-> crawl.closed + 1])
  /\ UNCHANGED <<runner, exec, scan, clock, tcase, maint, disc>>

\* The catch block of retryOperation: the error is counted; it is rethrown
\* when retryCount has reached MAX_RETRY_ATTEMPTS, else the delay begins.
RetryOperationCatch ==
  /\ crawl.pc = "retry"
  /\ crawl' = IF crawl.retryCount >= MAX_RETRY_ATTEMPTS
                THEN SetCrawl([pc |-> "threw", errorCount |-> crawl.errorCount + 1])
                ELSE SetCrawl([pc |-> "delay", errorCount |-> crawl.errorCount + 1])
  /\ UNCHANGED <<runner, exec, scan, clock, tcase, maint, disc>>

\* The delay is over: retryOperation(operation, retryCount + 1).
RetryDelayDone ==
  /\ crawl.pc = "delay"
  /\ crawl' = InvokeOperation(SetCrawl([retryCount |-> crawl.retryCount + 1]))
  /\ UNCHANGED <<runner, exec, scan, clock, tcase, maint, disc>>

NextCrawl ==
  \/ CrawlInitialize
  \/ CrawlPage
  \/ MonitorMemoryUsage
  \/ RecoveryCloseDone
  \/ RecoveryDelayDone
  \/ RecoveryInitializeDone
  \/ CrawlNewContextDone
  \/ CrawlNewPageDone
  \/ CrawlWorkDone
  \/ CrawlContextCloseDone
  \/ RetryOperationCatch
  \/ RetryDelayDone

\* One crawlPage call on the WebCrawler of src/src/services/crawler.ts:48.
SpecCrawl == Init /\ [][NextCrawl]_vars

\* ------------------------------- one executeStep call, routes/crawler.ts

StepValues == {Undefined, "", "user", "hello"}
Selectors ==
  {NoSelector} \cup
  {[present |-> TRUE, type |-> ty, value |-> "q"] :
     ty \in SelectorTypes \cup {"role", Undefined}}
TestDatas ==
  {NoTestData} \cup
  {[present |-> TRUE, valid |-> v, invalid |-> i] :
     v \in [FixtureKeys -> {Undefined, "alice"}],
     i \in [FixtureKeys -> {Undefined, "mallory"}]}
Steps ==
  [action : Actions \cup {"teleport"}, selector : Selectors, value : StepValues,
   testData : TestDatas, useValidData : BOOLEAN, waitForNavigation : BOOLEAN,
   timeout : {0, 100}]

\* executeStep is called and runs to its first await or to its throw.
ExecuteStepCall ==
  /\ exec.pc = "idle"
  /\ \E step \in Steps :
       LET d == Dispatch(step)
       IN exec' = [pc |-> IF d.error = NoError THEN "driver" ELSE "threw",
                   step |-> step, selector |-> d.selector, value |-> d.value,
                   calls |-> IF d.error = NoError THEN <<d.call>> ELSE <<>>,
                   error |-> d.error]
  /\ UNCHANGED <<runner, crawl, scan, clock, tcase, maint, disc>>

\* The driver call of the action returns or throws; after it
\* waitForLoadState is called when the step asks for it.
ExecDriverDone ==
  /\ exec.pc = "driver"
  /\ \E ok \in BOOLEAN :
       exec' = IF ~ok THEN Merge(exec, [pc |-> "threw", error |-> "driver"])
               ELSE IF exec.step.waitForNavigation
                 THEN Merge(exec, [pc |-> "loadState",
                                   calls |-> Append(exec.calls,
                                      DriverCall("waitForLoadState", "", "networkidle"))])
               ELSE Merge(exec, [pc |-> "returned"])
  /\ UNCHANGED <<runner, crawl, scan, clock, tcase, maint, disc>>

\* waitForLoadState returns or throws.
ExecLoadStateDone ==
  /\ exec.pc = "loadState"
  /\ \E ok \in BOOLEAN :
       exec' = IF ok THEN Merge(exec, [pc |-> "returned"])
               ELSE Merge(exec, [pc |-> "threw", error |-> "driver"])
  /\ UNCHANGED <<runner, crawl, scan, clock, tcase, maint, disc>>

NextStep ==
  \/ ExecuteStepCall
  \/ ExecDriverDone
  \/ ExecLoadStateDone

\* One executeStep call of the WebCrawler of src/src/routes/crawler.ts:992.
SpecStep == Init /\ [][NextStep]_vars

\* ------------------- one findTestableElements call, services/crawler.ts:48

MaxFields == 3
MaxLoose == 1

\* The controls of a page: an element with its tag, its type attribute,
\* what isVisible() says of it and whether it has a bounding box.
ControlKinds ==
  {<<"input", "text">>, <<"input", "submit">>, <<"button", "submit">>,
   <<"button", "button">>}
Controls ==
  {[tag |-> k[1], type |-> k[2], visible |-> v, box |-> b] :
     k \in ControlKinds, v \in BOOLEAN, b \in BOOLEAN}
SeqsUpTo(S, n) == UNION {[1..m -> S] : m \in 0..n}
Forms == {[box |-> b, fields |-> fs] : b \in BOOLEAN, fs \in SeqsUpTo(Controls, MaxFields)}
Pages == [form : SeqsUpTo(Forms, 1), loose : SeqsUpTo(Controls, MaxLoose)]

\* The element ids of the page, in document order.
FieldIds == <<"f1", "f2", "f3", "f4", "f5">>
LooseIds == <<"b1", "b2", "b3">>
WithIds(controls, ids) ==
  [k \in 1..Len(controls) |-> [id |-> ids[k]] @@ controls[k]]

\* generateUniqueSelector and generateElementIdentifier of an element that
\* has an id.
GenerateUniqueSelector(el) == "#" \o el.id
GenerateElementIdentifier(el) == [type |-> "id", value |-> el.id]

\* validateElement that looks at the bounding box only.
ValidateElementBoxOnly(el) == el.box

\* validateElement: isVisible() and a bounding box.
ValidateElement(el) == el.visible /\ el.box

\* The controls of the page in document order: those of the form, then the
\* others.
AllControls(page) ==
  (IF page.form = <<>> THEN <<>> ELSE WithIds(page.form[1].fields, FieldIds))
    \o WithIds(page.loose, LooseIds)

MatchesField(el) == el.tag \in {"input", "select", "textarea"}
MatchesButton(el) ==
  el.tag = "button" \/ (el.tag = "input" /\ el.type \in {"button", "submit"})
MatchesInput(el) ==
  (el.tag = "input" /\ el.type \notin {"submit", "button"})
    \/ el.tag \in {"textarea", "select"}

\* findForms: every form with a bounding box, with the selectors of its
\* input, select and textarea descendants.
FindForms(page) ==
  LET forms == SelectSeq(page.form, LAMBDA f : f.box)
  IN [k \in 1..Len(forms) |->
        LET formFields == SelectSeq(WithIds(forms[k].fields, FieldIds), MatchesField)
        IN [type |-> "form", identifier |-> [type |-> "id", value |-> "form"],
            childElements |->
              [c \in 1..Len(formFields) |-> GenerateUniqueSelector(formFields[c])]]]

\* findButtons: the candidates validateElement accepts and that have a
\* bounding box.
FindButtons(page) ==
  LET buttons == SelectSeq(AllControls(page), MatchesButton)
      kept == SelectSeq(buttons, LAMBDA b : ValidateElement(b) /\ b.box)
  IN [k \in 1..Len(kept) |->
        [type |-> "button", identifier |-> GenerateElementIdentifier(kept[k]),
         childElements |-> <<>>]]

\* findInputFields: the inputs that are no submit or button, with a
\* bounding box.
FindInputFields(page) ==
  LET inputs == SelectSeq(AllControls(page), LAMBDA e : MatchesInput(e) /\ e.box)
  IN [k \in 1..Len(inputs) |->
        [type |-> "input",
         identifier |-> [type |-> "id", value |-> inputs[k].id],
         childElements |-> <<>>]]

\* findTestableElements is called on a page; findForms runs.
ScanForms ==
  /\ scan.pc = "idle"
  /\ \E page \in Pages :
       scan' = [pc |-> "buttons", page |-> page, elements |-> FindForms(page)]
  /\ UNCHANGED <<runner, crawl, exec, clock, tcase, maint, disc>>

ScanButtons ==
  /\ scan.pc = "buttons"
  /\ scan' = [scan EXCEPT !.pc = "navLinks",
                          !.elements = @ \o FindButtons(scan.page)]
  /\ UNCHANGED <<runner, crawl, exec, clock, tcase, maint, disc>>

\* findNavigationLinks: the page has no anchor in a navigation container.
ScanNavigationLinks ==
  /\ scan.pc = "navLinks"
  /\ scan' = [scan EXCEPT !.pc = "inputs"]
  /\ UNCHANGED <<runner, crawl, exec, clock, tcase, maint, disc>>

ScanInputFields ==
  /\ scan.pc = "inputs"
  /\ scan' = [scan EXCEPT !.pc = "returned",
                          !.elements = @ \o FindInputFields(scan.page)]
  /\ UNCHANGED <<runner, crawl, exec, clock, tcase, maint, disc>>

NextScan ==
  \/ ScanForms
  \/ ScanButtons
  \/ ScanNavigationLinks
  \/ ScanInputFields

\* One findTestableElements call of the WebCrawler of services/crawler.ts:48.
SpecScan == Init /\ [][NextScan]_vars


\* ------------------------------ the timestamps of one runTestSuite call
\* (services/runTScrawler.ts; routes/crawler.ts has the same statements)

MaxTicks == 3
TimedCases == 2

\* How far the wall clock moves at once: a millisecond, or nearly a second.
TickSizes == {1, 999}

\* Date.prototype.toISOString keeps the seconds and the milliseconds apart
\* ("...:ss.mmmZ"); new Date(iso).getTime() puts them together again.
ToISOString(t) == [s |-> t \div 1000, ms |-> t % 1000]
GetTime(iso) == iso.s * 1000 + iso.ms

\* calculateDuration
CalculateDuration(startTime, endTime) == GetTime(endTime) - GetTime(startTime)

\* The suites: up to TimedCases cases, each with its dependsOn.
TimedIds == 1..TimedCases
TimedSuites ==
  UNION {[1..n -> SUBSET TimedIds] : n \in 1..TimedCases}

SetClock(changes) == Merge(clock, changes)

\* Time passes while the runner is at work.
Tick ==
  /\ clock.pc \notin {"idle", "returned"}
  /\ clock.ticks < MaxTicks
  /\ \E d \in TickSizes :
       clock' = SetClock([now |-> clock.now + d, ticks |-> clock.ticks + 1])
  /\ UNCHANGED <<runner, crawl, exec, scan, tcase, maint, disc>>

\* runTestSuite creates this.currentSuiteRun.
RunTestSuiteAt ==
  /\ clock.pc = "idle"
  /\ \E cases \in TimedSuites :
       clock' = SetClock(
         [pc |-> "loop", cases |-> cases, i |-> 1,
          testRuns |-> [c \in TimedIds |-> Absent],
          suiteRun |-> [status |-> "RUNNING",
                        startedAt |-> ToISOString(clock.now),
                        totalTests |-> Len(cases), passedTests |-> 0,
                        failedTests |-> 0, skippedTests |-> 0,
                        blockedTests |-> 0]])
  /\ UNCHANGED <<runner, crawl, exec, scan, tcase, maint, disc>>

\* The loop of runTestSuite: canRunTest, then runTestCase creates its
\* TestRun or recordBlockedTest is entered.
CanRunTestAt ==
  /\ clock.pc = "loop"
  /\ clock.i <= Len(clock.cases)
  /\ IF CanRunTest(clock.cases[clock.i], clock.testRuns)
     THEN clock' = SetClock(
            [pc |-> "case",
             testRun |-> [testCaseId |-> clock.i, status |-> "RUNNING",
                          startedAt |-> ToISOString(clock.now)]])
     ELSE clock' = SetClock([pc |-> "blocked"])
  /\ UNCHANGED <<runner, crawl, exec, scan, tcase, maint, disc>>

\* The try block of runTestCase ends: the steps and assertions passed, or
\* one of them failed.
RunTestCaseBody ==
  /\ clock.pc = "case"
  /\ \E status \in {"PASSED", "FAILED"} :
       clock' = SetClock(
         [pc |-> "caseFinally",
          testRun |-> [clock.testRun EXCEPT !.status = status],
          suiteRun |-> UpdateSuiteRunStats(<<clock.suiteRun>>, 1, status)[1]])
  /\ UNCHANGED <<runner, crawl, exec, scan, tcase, maint, disc>>

\* The finally block of runTestCase and the registration of the TestRun.
RunTestCaseFinally ==
  /\ clock.pc = "caseFinally"
  /\ LET completedAt == ToISOString(clock.now)
         testRun == [completedAt |-> completedAt,
                     duration |-> CalculateDuration(clock.testRun.startedAt,
                                                    completedAt)]
                      @@ clock.testRun
     IN clock' = SetClock(
          [pc |-> "loop", i |-> clock.i + 1, testRun |-> testRun,
           testRuns |-> [clock.testRuns EXCEPT ![clock.i] = testRun],
           pushed |-> Append(clock.pushed, testRun)])
  /\ UNCHANGED <<runner, crawl, exec, scan, tcase, maint, disc>>

\* recordBlockedTest evaluates `startedAt: new Date().toISOString()`.
RecordBlockedStartedAt ==
  /\ clock.pc = "blocked"
  /\ clock' = SetClock(
       [pc |-> "blockedCompletedAt",
        testRun |-> [testCaseId |-> clock.i, status |-> "BLOCKED",
                     startedAt |-> ToISOString(clock.now)]])
  /\ UNCHANGED <<runner, crawl, exec, scan, tcase, maint, disc>>

\* recordBlockedTest evaluates `completedAt: new Date().toISOString()` and
\* `duration: 0`, and registers the TestRun.
RecordBlockedCompletedAt ==
  /\ clock.pc = "blockedCompletedAt"
  /\ LET testRun == [completedAt |-> ToISOString(clock.now), duration |-> 0]
                      @@ clock.testRun
     IN clock' = SetClock(
          [pc |-> "loop", i |-> clock.i + 1, testRun |-> testRun,
           testRuns |-> [clock.testRuns EXCEPT ![clock.i] = testRun],
           pushed |-> Append(clock.pushed, testRun),
           suiteRun |-> UpdateSuiteRunStats(<<clock.suiteRun>>, 1, "BLOCKED")[1]])
  /\ UNCHANGED <<runner, crawl, exec, scan, tcase, maint, disc>>

\* The finally block of runTestSuite.
RunTestSuiteFinally ==
  /\ clock.pc = "loop"
  /\ clock.i > Len(clock.cases)
  /\ LET completedAt == ToISOString(clock.now)
         done == [completedAt |-> completedAt,
                  duration |-> CalculateDuration(clock.suiteRun.startedAt,
                                                 completedAt)]
                   @@ clock.suiteRun
     IN clock' = SetClock(
          [pc |-> "returned",
           suiteRun |-> [done EXCEPT !.status = DetermineTestSuiteStatus(done)]])
  /\ UNCHANGED <<runner, crawl, exec, scan, tcase, maint, disc>>

NextClock ==
  \/ Tick
  \/ RunTestSuiteAt
  \/ CanRunTestAt
  \/ RunTestCaseBody
  \/ RunTestCaseFinally
  \/ RecordBlockedStartedAt
  \/ RecordBlockedCompletedAt
  \/ RunTestSuiteFinally

\* One runTestSuite call of the TSWebCrawler, with its timestamps.
SpecClock == Init /\ [][NextClock]_vars

\* Every await of runTestSuite settles: the continuation that is ready runs.
SpecClockFair ==
  SpecClock /\ WF_vars(CanRunTestAt \/ RunTestCaseBody \/ RunTestCaseFinally
                         \/ RecordBlockedStartedAt \/ RecordBlockedCompletedAt
                         \/ RunTestSuiteFinally)


\* --------------------- the steps of one runTestCase call (runTScrawler.ts)

MaxCaseSteps == 2
MaxStepNumber == 2

\* The steps of a case: the stepNumber and the action of each, in the order
\* of the steps array.
CaseStepValues == [stepNumber : 1..MaxStepNumber, action : Actions]
CaseStepArrays == UNION {[1..n -> CaseStepValues] : n \in 0..MaxCaseSteps}

\* executeStep of services/runTScrawler.ts with a default branch that
\* returns: a step it does not know is skipped.
ExecuteStepSkipsUnknown(step) ==
  CASE step.action = "navigate" -> "goto"
    [] step.action = "click" -> "click"
    [] step.action = "type" -> "fill"
    [] step.action = "wait" -> "waitForTimeout"
    [] OTHER -> "return"

\* executeStep of services/runTScrawler.ts: the driver call of the action,
\* or the throw of the default branch.
ExecuteStepTS(step) ==
  CASE step.action = "navigate" -> "goto"
    [] step.action = "click" -> "click"
    [] step.action = "type" -> "fill"
    [] step.action = "wait" -> "waitForTimeout"
    [] OTHER -> "unsupported"

SetCase(changes) == Merge(tcase, changes)

\* runTestCase on a case with these steps, after browser.newPage().
RunTestCaseSteps ==
  /\ tcase.pc = "idle"
  /\ \E steps \in CaseStepArrays :
       tcase' = SetCase([pc |-> "steps", steps |-> steps, status |-> "RUNNING",
                         pageOpen |-> TRUE])
  /\ UNCHANGED <<runner, crawl, exec, scan, clock, maint, disc>>

\* The head of the for-of loop over testCase.steps, and executeStep up to
\* its await or its throw.
CaseStepLoop ==
  /\ tcase.pc = "steps"
  /\ IF tcase.j < Len(tcase.steps)
       THEN LET step == tcase.steps[tcase.j + 1]
                does == ExecuteStepTS(step)
            IN tcase' = SetCase(
                 [j |-> tcase.j + 1,
                  calls |-> Append(tcase.calls, step.stepNumber),
                  pc |-> CASE does = "unsupported" -> "stepShot"
                           [] does = "return" -> "stepOk"
                           [] OTHER -> "driver",
                  thrown |-> IF does = "unsupported"
                               THEN Append(tcase.thrown, <<tcase.j + 1, "unsupported">>)
                               ELSE tcase.thrown,
                  error |-> IF does = "unsupported" THEN "unsupported" ELSE NoError,
                  driver |-> IF does \in {"unsupported", "return"} THEN tcase.driver
                             ELSE Append(tcase.driver, <<tcase.j + 1, does>>)])
       ELSE tcase' = SetCase([pc |-> "asserts"])
  /\ UNCHANGED <<runner, crawl, exec, scan, clock, maint, disc>>

\* The driver call of executeStep resolves or rejects.
CaseDriverDone ==
  /\ tcase.pc = "driver"
  /\ \E ok \in BOOLEAN :
       IF ok THEN tcase' = SetCase([pc |-> "stepOk"])
       ELSE tcase' = SetCase([pc |-> "stepShot", error |-> "step",
                              thrown |-> Append(tcase.thrown, <<tcase.j, "step">>)])
  /\ UNCHANGED <<runner, crawl, exec, scan, clock, maint, disc>>

\* executeStep returned: the step is logged as successful.
CaseStepOk ==
  /\ tcase.pc = "stepOk"
  /\ tcase' = SetCase([pc |-> "steps",
                       stepLogs |-> Append(tcase.stepLogs, StepLog(tcase.j, TRUE))])
  /\ UNCHANGED <<runner, crawl, exec, scan, clock, maint, disc>>

\* The handler of a failed step: captureScreenshot, the log of the failed
\* step, and the rethrow; a failing captureScreenshot throws in its place.
CaseStepShotDone ==
  /\ tcase.pc = "stepShot"
  /\ \E ok \in BOOLEAN :
       IF ok
         THEN tcase' = SetCase([pc |-> "catch", screenshot |-> TRUE,
                                stepLogs |-> Append(tcase.stepLogs,
                                                    StepLog(tcase.j, FALSE))])
         ELSE tcase' = SetCase([pc |-> "catch", error |-> "screenshot"])
  /\ UNCHANGED <<runner, crawl, exec, scan, clock, maint, disc>>

\* The assertions of the case, page.close() and the status of the case.
CaseAssertions ==
  /\ tcase.pc = "asserts"
  /\ \E assertionsFailed \in BOOLEAN :
       tcase' = SetCase([pc |-> "finally", pageOpen |-> FALSE,
                         status |-> CaseStatus(assertionsFailed)])
  /\ UNCHANGED <<runner, crawl, exec, scan, clock, maint, disc>>

\* The catch block of runTestCase.
CaseCatch ==
  /\ tcase.pc = "catch"
  /\ tcase' = SetCase([pc |-> "finally", status |-> "FAILED",
                       errorMessage |-> tcase.error, error |-> NoError])
  /\ UNCHANGED <<runner, crawl, exec, scan, clock, maint, disc>>

\* The finally block of runTestCase and the registration of the TestRun.
CaseFinally ==
  /\ tcase.pc = "finally"
  /\ tcase' = SetCase([pc |-> "returned", registered |-> TRUE])
  /\ UNCHANGED <<runner, crawl, exec, scan, clock, maint, disc>>

NextCase ==
  \/ RunTestCaseSteps
  \/ CaseStepLoop
  \/ CaseDriverDone
  \/ CaseStepOk
  \/ CaseStepShotDone
  \/ CaseAssertions
  \/ CaseCatch
  \/ CaseFinally

\* One runTestCase call of the TSWebCrawler, with the data of its steps.
SpecCase == Init /\ [][NextCase]_vars


\* ------------------------ cleanup of the WebCrawler of routes/crawler.ts
\* (the class at line 992: cleanup, clearCache, processScreenshotQueue)

MaxQueued == 6
BatchSize == 5

\* The entries {page, testCaseId} that are queued, in the order of their
\* push: entry e is the e-th one.
Entries == 1..MaxQueued
CachedUrls == {"/"}

SetMaint(changes) == Merge(maint, changes)

\* Array.prototype.splice(0, n) that takes the last n entries.
SpliceLast(queue, n) ==
  LET k == IF Len(queue) < n THEN Len(queue) ELSE n
  IN [batch |-> SubSeq(queue, Len(queue) - k + 1, Len(queue)),
      rest |-> SubSeq(queue, 1, Len(queue) - k)]

\* Array.prototype.splice(0, n): the first n entries are taken out.
Splice(queue, n) ==
  LET k == IF Len(queue) < n THEN Len(queue) ELSE n
  IN [batch |-> SubSeq(queue, 1, k), rest |-> SubSeq(queue, k + 1, Len(queue))]

\* clearCache
ClearCache(m) ==
  Merge(m, [responseCache |-> {}, testRuns |-> {}, screenshotQueue |-> <<>>])

\* Between two operations: initialize() launches the browser.
MaintInitialize ==
  /\ maint.pc = "idle"
  /\ ~maint.browser
  /\ maint' = SetMaint([browser |-> TRUE])
  /\ UNCHANGED <<runner, crawl, exec, scan, clock, tcase, disc>>

\* Between two operations: an entry is pushed on the public screenshotQueue.
Enqueue ==
  /\ maint.pc = "idle"
  /\ Len(maint.screenshotQueue) < MaxQueued
  /\ maint' = SetMaint(
       [screenshotQueue |-> Append(maint.screenshotQueue,
                                   Len(maint.screenshotQueue) + 1)])
  /\ UNCHANGED <<runner, crawl, exec, scan, clock, tcase, disc>>

\* Between two operations: getResponseDetails caches a response.
CacheResponse ==
  /\ maint.pc = "idle"
  /\ \E url \in CachedUrls \ maint.responseCache :
       maint' = SetMaint([responseCache |-> maint.responseCache \cup {url}])
  /\ UNCHANGED <<runner, crawl, exec, scan, clock, tcase, disc>>

\* Between two operations: a suite run has put a TestRun in the registry.
RunRegistered ==
  /\ maint.pc = "idle"
  /\ maint.testRuns = {}
  /\ maint' = SetMaint([testRuns |-> {1}])
  /\ UNCHANGED <<runner, crawl, exec, scan, clock, tcase, disc>>

\* cleanup() or processScreenshotQueue() is called.
CallMaint ==
  /\ maint.pc = "idle"
  /\ \E op \in {"cleanup", "processScreenshotQueue"} :
       maint' = SetMaint([op |-> op, pc |-> "while"])
  /\ UNCHANGED <<runner, crawl, exec, scan, clock, tcase, disc>>

\* The head of the loop of processScreenshotQueue: the next batch is taken
\* off the queue and the capture of each of its entries is started; with an
\* empty queue processScreenshotQueue returns.
TakeBatch ==
  /\ maint.pc = "while"
  /\ IF maint.screenshotQueue # <<>>
       THEN LET taken == Splice(maint.screenshotQueue, BatchSize)
            IN maint' = SetMaint(
                 [pc |-> "all", screenshotQueue |-> taken.rest,
                  batch |-> taken.batch,
                  pending |-> {taken.batch[k] : k \in 1..Len(taken.batch)},
                  batches |-> Append(maint.batches, taken.batch),
                  captured |-> maint.captured])
       ELSE maint' = SetMaint(
              [pc |-> IF maint.op = "cleanup" THEN "clearCache" ELSE "returned"])
  /\ UNCHANGED <<runner, crawl, exec, scan, clock, tcase, disc>>

\* captureScreenshot of one entry of the batch ends. When it throws,
\* Promise.all rejects: processScreenshotQueue throws, and cleanup logs the
\* error in its catch block and returns. The last capture of a batch
\* without failure resolves Promise.all.
CaptureDone ==
  /\ maint.pending # {}
  /\ \E e \in maint.pending, ok \in BOOLEAN :
       LET left == maint.pending \ {e}
       IN IF ok
            THEN maint' = SetMaint(
                   [pending |-> left,
                    captured |-> Append(maint.captured, e),
                    pc |-> IF maint.pc = "all" /\ left = {} THEN "while"
                           ELSE maint.pc])
            ELSE maint' = SetMaint(
                   [pending |-> left, failed |-> TRUE,
                    pc |-> IF maint.pc # "all" THEN maint.pc
                           ELSE IF maint.op = "cleanup" THEN "returned"
                           ELSE "threw"])
  /\ UNCHANGED <<runner, crawl, exec, scan, clock, tcase, disc>>

\* cleanup after processScreenshotQueue: clearCache(), then the browser, if
\* there is one, is closed.
ClearCacheAndClose ==
  /\ maint.pc = "clearCache"
  /\ maint' = Merge(ClearCache(maint),
                    [pc |-> IF maint.browser THEN "close" ELSE "returned"])
  /\ UNCHANGED <<runner, crawl, exec, scan, clock, tcase, disc>>

\* browser.close() has returned: the handle is set to null.
MaintCloseDone ==
  /\ maint.pc = "close"
  /\ maint' = SetMaint([pc |-> "returned", browser |-> FALSE,
                        closes |-> maint.closes + 1])
  /\ UNCHANGED <<runner, crawl, exec, scan, clock, tcase, disc>>

NextMaint ==
  \/ MaintInitialize
  \/ Enqueue
  \/ CacheResponse
  \/ RunRegistered
  \/ CallMaint
  \/ TakeBatch
  \/ CaptureDone
  \/ ClearCacheAndClose
  \/ MaintCloseDone

\* One cleanup or processScreenshotQueue call of the WebCrawler of
\* routes/crawler.ts:992.
SpecMaint == Init /\ [][NextMaint]_vars

\* The same, with every started capture ending and the loop going on.
SpecMaintFair ==
  /\ SpecMaint
  /\ WF_vars(TakeBatch)
  /\ WF_vars(CaptureDone)
  /\ WF_vars(ClearCacheAndClose)
  /\ WF_vars(MaintCloseDone)

\* ------------------- one findInputFields call, node by node (crawler.ts)

MaxNodes == 2
MaxAttributeLength == 1000

\* The lengths of the value of the data attribute of a node.
AttrLengths == {MaxAttributeLength - 1, MaxAttributeLength, MaxAttributeLength + 1}

\* The nodes `input:not([type="submit"]):not([type="button"]), textarea,
\* select` can match: className is kept as its list of class names, and the
\* value of the data attribute as its length.
Nodes ==
  [tag : {"input", "select"}, id : {"", "q"}, name : {"", "n"},
   classes : {<<>>, <<"c", "d">>}, box : BOOLEAN, data : AttrLengths]

NodeLists == UNION {[1..n -> Nodes] : n \in 0..MaxNodes}

\* classes.join('.')
RECURSIVE Join(_)
Join(classes) ==
  IF Len(classes) = 1 THEN classes[1]
  ELSE classes[1] \o "." \o Join(Tail(classes))

\* The index of nth-of-type: one more than the number of previous siblings
\* with the tag of the node; the nodes of the list are the children of body.
NthOfType(inputs, k) == 1 + Cardinality({j \in 1..(k - 1) : inputs[j].tag = inputs[k].tag})

\* The function generateUniqueSelector evaluates in the page; a selector is
\* kept as its leading '#', if any, and the rest.
UniqueSelectorScript(inputs, k) ==
  LET el == inputs[k]
  IN IF el.id # "" THEN [prefix |-> "#", rest |-> el.id]
     ELSE IF el.name # ""
       THEN [prefix |-> "", rest |-> el.tag \o "[name=\"" \o el.name \o "\"]"]
     ELSE IF el.classes # <<>>
       THEN [prefix |-> "", rest |-> el.tag \o "." \o Join(el.classes)]
     ELSE [prefix |-> "",
           rest |-> "body > " \o el.tag \o ":nth-of-type("
                      \o ToString(NthOfType(inputs, k)) \o ")"]

\* The function the catch block of generateUniqueSelector evaluates.
TagNameScript(el) == [prefix |-> "", rest |-> el.tag]

\* identifier of findInputFields: selector.startsWith('#') and
\* selector.replace(/^[#\.]/, '').
SelectorIdentifier(selector) ==
  [type |-> IF selector.prefix = "#" THEN "id" ELSE "class", value |-> selector.rest]

\* el.attributes as the length of each value, by attribute name.
ElementAttributes(el) ==
  LET names == {"data-x"} \cup (IF el.id # "" THEN {"id"} ELSE {})
                 \cup (IF el.name # "" THEN {"name"} ELSE {})
                 \cup (IF el.classes # <<>> THEN {"class"} ELSE {})
  IN [a \in names |->
        CASE a = "data-x" -> el.data
          [] a = "id" -> 1
          [] a = "name" -> 1
          [] a = "class" -> 2 * Len(el.classes) - 1]

\* validateAttributes: `value.length < 1000`.
ValidateAttributes(attributes) ==
  [a \in {b \in DOMAIN attributes : attributes[b] < MaxAttributeLength} |-> attributes[a]]

SetDisc(fields) == disc' = Merge(disc, fields)

\* The next node of the loop of findInputFields, or its return.
NextNode == IF disc.k < Len(disc.inputs)
            THEN [pc |-> "selector", k |-> disc.k + 1]
            ELSE [pc |-> "returned"]

\* findInputFields is called on a page with these matching nodes.
FindInputFieldsCall ==
  /\ disc.pc = "idle"
  /\ \E inputs \in NodeLists :
       disc' = [NoDiscovery EXCEPT !.inputs = inputs,
                  !.pc = IF inputs = <<>> THEN "returned" ELSE "selector",
                  !.k = IF inputs = <<>> THEN 0 ELSE 1]
  /\ UNCHANGED <<runner, crawl, exec, scan, clock, tcase, maint>>

\* generateUniqueSelector, the try block: element.evaluate resolves with the
\* selector, or rejects and the catch block runs.
SelectorEvaluated ==
  /\ disc.pc = "selector"
  /\ \E ok \in BOOLEAN :
       IF ok
       THEN SetDisc([pc |-> "box", selector |-> UniqueSelectorScript(disc.inputs, disc.k)])
       ELSE SetDisc([pc |-> "fallback", failed |-> disc.failed \cup {disc.k}])
  /\ UNCHANGED <<runner, crawl, exec, scan, clock, tcase, maint>>

\* generateUniqueSelector, the catch block: element.evaluate once more, for
\* the tag name; its rejection is the rejection of generateUniqueSelector.
FallbackEvaluated ==
  /\ disc.pc = "fallback"
  /\ \E ok \in BOOLEAN :
       IF ok
       THEN SetDisc([pc |-> "box", selector |-> TagNameScript(disc.inputs[disc.k])])
       ELSE SetDisc([pc |-> "threw", threwIn |-> "generateUniqueSelector"])
  /\ UNCHANGED <<runner, crawl, exec, scan, clock, tcase, maint>>

\* input.boundingBox(): a node without a box is skipped.
BoundingBoxDone ==
  /\ disc.pc = "box"
  /\ IF disc.inputs[disc.k].box
     THEN SetDisc([pc |-> "attributes"])
     ELSE SetDisc(NextNode)
  /\ UNCHANGED <<runner, crawl, exec, scan, clock, tcase, maint>>

\* extractAttributes: element.evaluate, outside any try, then
\* validateAttributes; the element is pushed.
AttributesEvaluated ==
  /\ disc.pc = "attributes"
  /\ \E ok \in BOOLEAN :
       IF ok
       THEN SetDisc(NextNode @@
              [found |-> Append(disc.found,
                 [type |-> "input", node |-> disc.k,
                  identifier |-> SelectorIdentifier(disc.selector),
                  attributes |-> ValidateAttributes(ElementAttributes(disc.inputs[disc.k]))])])
       ELSE SetDisc([pc |-> "threw", threwIn |-> "extractAttributes",
                     failed |-> disc.failed \cup {disc.k}])
  /\ UNCHANGED <<runner, crawl, exec, scan, clock, tcase, maint>>

NextDisc ==
  \/ FindInputFieldsCall
  \/ SelectorEvaluated
  \/ FallbackEvaluated
  \/ BoundingBoxDone
  \/ AttributesEvaluated

SpecDisc == Init /\ [][NextDisc]_vars

\* ---------------------------------------------------------------- properties

\* The case frame[t].testCase has been processed by runTestCase or
\* recordBlockedTest and the loop of runTestSuite has the thread again.
AtCaseEnd(t) == frame[t].testCase # NoCase /\ frame[t].pc \in {"loop", "finally"}

CasePcs == {"newPage", "steps", "step", "stepShot", "asserts", "assert", "close",
            "catch", "catchShot", "catchSave", "finallySave"}

Count(list, status) == Cardinality({p \in 1..Len(list) : list[p].status = status})

\* C1: a case with a dependency that has no run, or a run that is not
\* PASSED, when the loop reaches it, is never handed to runTestCase: no page
\* is opened, no step or assertion is executed, and it is recorded BLOCKED
\* with empty logs.
C1_UnmetDependencyBlocks ==
  \A t \in Tasks :
    frame[t].unmet =>
      /\ frame[t].pc \in {"gated", "loop", "finally"}
      /\ frame[t].page = NoPage
      /\ frame[t].stepCalls = 0 /\ frame[t].assertCalls = 0
      /\ AtCaseEnd(t) =>
           /\ frame[t].testRun.status = "BLOCKED"
           /\ frame[t].testRun.steps = <<>> /\ frame[t].testRun.assertions = <<>>
           /\ testRuns[frame[t].testCase.id].status = "BLOCKED"
           /\ suiteRun[t].testRuns # <<>>
           /\ suiteRun[t].testRuns[Len(suiteRun[t].testRuns)] = Stored(frame[t].testRun, t)

\* A case with steps and assertions whose dependency has no run was recorded.
C1_Witness ==
  \E t \in Tasks :
    /\ frame[t].unmet /\ AtCaseEnd(t)
    /\ frame[t].testCase.nSteps > 0 /\ frame[t].testCase.nAsserts > 0
    /\ \E d \in frame[t].testCase.dependsOn : testRuns[d] = Absent

\* C2: after the parallel runAllTestSuites the returned array holds one
\* record per suite: record i is the TestSuiteRun created for suite i, no
\* record appears twice, and its runs and counters are those of suite i.
C2_OneRecordPerSuite ==
  (api.op = "runAllParallel" /\ api.pc = "done") =>
    \A i \in 1..api.n :
      LET r == suiteRun[api.result[i]]
      IN /\ api.result[i] = i
         /\ r.testSuiteId = i
         /\ Len(r.testRuns) = r.totalTests
         /\ \A p \in 1..Len(r.testRuns) : r.testRuns[p].by = i
         /\ r.passedTests = Count(r.testRuns, "PASSED")
         /\ r.failedTests = Count(r.testRuns, "FAILED")
         /\ r.blockedTests = Count(r.testRuns, "BLOCKED")

Terminal == {"PASSED", "FAILED", "BLOCKED", "SKIPPED"}
Counted(r) == r.passedTests + r.failedTests + r.blockedTests + r.skippedTests

\* C3: for every TestSuiteRun, totalTests is the number of cases, the four
\* counters never add up to more than totalTests, and they add up to
\* totalTests once runTestSuite has written a terminal status.
C3_CountersAddUp ==
  \A o \in Tasks :
    suiteRun[o].testSuiteId # 0 =>
      /\ frame[o].pc \notin {"idle", "ctx", "entry", "returned", "threw", "ctxClose", "done"}
           => suiteRun[o].totalTests = frame[o].nCases
      /\ Counted(suiteRun[o]) <= suiteRun[o].totalTests
      /\ suiteRun[o].status \in Terminal => Counted(suiteRun[o]) = suiteRun[o].totalTests

\* C4: when runTestCase has ended, the page it opened is closed, and at most
\* one page is open at any time of a sequential run.
C4_PageClosedAtCaseEnd ==
  /\ Cardinality(pages) <= 1
  /\ \A t \in Tasks :
       (AtCaseEnd(t) /\ frame[t].page # NoPage) => frame[t].page \notin pages

\* C5: once a step or an assertion of a case has failed, no exception
\* reaches runTestSuite: the loop of the suite ends only after the last case
\* and without an error in flight, and at the end of the case the failure is
\* in the TestRun: status FAILED, with an error message for a failed step and
\* a failed log entry for a failed assertion.
C5_FailuresStayInTheCase ==
  \A t \in Tasks :
    (frame[t].failedStep # 0 \/ frame[t].failedAsserts # {}) =>
      /\ frame[t].pc = "finally" =>
           frame[t].error = NoError /\ frame[t].i = frame[t].nCases
      /\ AtCaseEnd(t) =>
           /\ frame[t].testRun.status = "FAILED"
           /\ frame[t].failedStep # 0 => frame[t].testRun.errorMessage # NoError
           /\ \A a \in frame[t].failedAsserts :
                frame[t].testRun.assertions[a] = AssertionLog(a, FALSE)

OwnRecords(t) ==
  {p \in 1..Len(suiteRun[currentSuiteRun].testRuns) :
     /\ suiteRun[currentSuiteRun].testRuns[p].testCaseId = frame[t].testCase.id
     /\ suiteRun[currentSuiteRun].testRuns[p].by = t}

\* C6: runTestCase ends only by returning, and then its TestRun has
\* completedAt and duration, is the registry's entry for its case id, and is
\* on the list of the current TestSuiteRun exactly once (and not before).
C6_RunRecordedOnce ==
  \A t \in Tasks :
    /\ frame[t].pc \in {"finally", "threw"} => frame[t].error \in {NoError, "launch"}
    /\ frame[t].pc \in CasePcs => OwnRecords(t) = {}
    /\ (AtCaseEnd(t) /\ frame[t].canRun) =>
         /\ frame[t].testRun.completedAt
         /\ frame[t].testRun.status \in {"PASSED", "FAILED"}
         /\ testRuns[frame[t].testCase.id] = Stored(frame[t].testRun, t)
         /\ OwnRecords(t) = {Len(suiteRun[currentSuiteRun].testRuns)}
         /\ suiteRun[currentSuiteRun].testRuns[Len(suiteRun[currentSuiteRun].testRuns)]
              = Stored(frame[t].testRun, t)

\* runTestCase has ended after newPage failed.
C6_Witness ==
  \E t \in Tasks :
    /\ AtCaseEnd(t) /\ frame[t].canRun
    /\ frame[t].testRun.errorMessage = "newPage"

\* C7: after the first failing step a screenshot is stored, the steps log
\* holds the successful steps before it and a failed entry for it, no later
\* step and no assertion was executed, and the case is FAILED with the
\* step's error message.
C7_FirstFailingStepEndsCase ==
  \A t \in Tasks :
    (AtCaseEnd(t) /\ frame[t].failedStep # 0) =>
      /\ frame[t].testRun.screenshot
      /\ frame[t].testRun.steps =
           [p \in 1..frame[t].failedStep |-> StepLog(p, p < frame[t].failedStep)]
      /\ frame[t].stepCalls = frame[t].failedStep
      /\ frame[t].assertCalls = 0 /\ frame[t].testRun.assertions = <<>>
      /\ frame[t].testRun.status = "FAILED"
      /\ frame[t].testRun.errorMessage = "step"

C9_FailedDependencyBlocks ==
  \A t \in Tasks :
    LET list == suiteRun[t].testRuns
    IN /\ AtCaseEnd(t) =>
            \A d \in frame[t].testCase.dependsOn :
              (\E p \in 1..(Len(list) - 1) :
                  list[p].testCaseId = d /\ list[p].status \in {"FAILED", "BLOCKED"})
                => /\ frame[t].testRun.status = "BLOCKED"
                   /\ list[Len(list)] = Stored(frame[t].testRun, t)
       /\ suiteRun[t].failedTests = Count(list, "FAILED")
       /\ suiteRun[t].blockedTests = Count(list, "BLOCKED")
       /\ suiteRun[t].passedTests = Count(list, "PASSED")
       /\ (suiteRun[t].completedAt /\ Count(list, "FAILED") > 0) => suiteRun[t].status = "FAILED"

\* The loop of a suite of three cases is over: A failed, B depends on A and
\* C on B, and both are BLOCKED; one case is counted failed, two blocked.
C9_Witness ==
  \E t \in Tasks :
    /\ frame[t].pc = "finally" /\ frame[t].nCases = 3
    /\ frame[t].testCase.dependsOn = {2}
    /\ suiteRun[t].testRuns =
         <<[testCaseId |-> 1, status |-> "FAILED", completedAt |-> TRUE, by |-> t],
           [testCaseId |-> 2, status |-> "BLOCKED", completedAt |-> TRUE, by |-> t],
           [testCaseId |-> 3, status |-> "BLOCKED", completedAt |-> TRUE, by |-> t]>>
    /\ suiteRun[t].totalTests = 3
    /\ suiteRun[t].failedTests = 1 /\ suiteRun[t].blockedTests = 2

\* C10: a case without dependencies, or whose every dependency has a PASSED
\* run when the loop reaches it, passes canRunTest, is handed to runTestCase
\* and is never recorded BLOCKED.
C10_MetDependenciesRun ==
  \A t \in Tasks :
    (frame[t].testCase # NoCase /\ ~frame[t].unmet) =>
      /\ frame[t].canRun
      /\ frame[t].testRun.status # "BLOCKED"
      /\ AtCaseEnd(t) =>
           /\ frame[t].testRun.status \in {"PASSED", "FAILED"}
           /\ testRuns[frame[t].testCase.id].status = frame[t].testRun.status

\* A case whose two dependencies both PASSED has run and PASSED.
C10_Witness ==
  \E t \in Tasks :
    /\ AtCaseEnd(t)
    /\ frame[t].testCase.dependsOn = {1, 2}
    /\ ~frame[t].unmet
    /\ frame[t].testRun.status = "PASSED"

\* C11: a TestSuiteRun with status PASSED has passedTests equal to
\* totalTests and failedTests 0.
C11_PassedMeansAllPassed ==
  \A o \in Tasks :
    suiteRun[o].status = "PASSED" =>
      /\ suiteRun[o].passedTests = suiteRun[o].totalTests
      /\ suiteRun[o].failedTests = 0

\* A suite of three cases is PASSED.
C11_Witness ==
  \E o \in Tasks :
    /\ suiteRun[o].status = "PASSED"
    /\ suiteRun[o].totalTests = 3
    /\ Len(suiteRun[o].testRuns) = 3

\* The suite status the counters call for.
StatusOfCounters(failed, passed, blocked, total) ==
  CASE failed > 0 -> "FAILED"
    [] failed = 0 /\ passed = total -> "PASSED"
    [] failed = 0 /\ passed # total /\ blocked > 0 -> "BLOCKED"
    [] OTHER -> "FAILED"

\* C12: when runTestSuite has ended, by a return or by an exception, the
\* status of its TestSuiteRun is the one its counters call for (FAILED if
\* failedTests > 0, else PASSED if passedTests = totalTests, else BLOCKED if
\* blockedTests > 0, else FAILED) and is not RUNNING; when it has returned,
\* every case of the suite has been processed; while it runs the status is
\* RUNNING.
C12_StatusFromCounters ==
  \A t \in Tasks :
    /\ frame[t].pc \in {"returned", "threw"} =>
         /\ suiteRun[t].completedAt
         /\ suiteRun[t].status # "RUNNING"
         /\ suiteRun[t].status =
              StatusOfCounters(suiteRun[t].failedTests, suiteRun[t].passedTests,
                               suiteRun[t].blockedTests, suiteRun[t].totalTests)
    /\ frame[t].pc = "returned" =>
         /\ frame[t].ret = t
         /\ Len(suiteRun[t].testRuns) = suiteRun[t].totalTests
         /\ Counted(suiteRun[t]) = suiteRun[t].totalTests
    /\ frame[t].pc \in CasePcs \cup {"launch", "loop", "gated", "finally"} =>
         suiteRun[t].status = "RUNNING"

\* runTestSuite has returned a BLOCKED suite of three cases, one of them
\* PASSED.
C12_Witness ==
  \E t \in Tasks :
    /\ frame[t].pc = "returned"
    /\ suiteRun[t].status = "BLOCKED"
    /\ suiteRun[t].totalTests = 3
    /\ suiteRun[t].passedTests = 1

StatusMoves ==
  {<<"NOT_RUN", "RUNNING">>, <<"NOT_RUN", "BLOCKED">>,
   <<"RUNNING", "PASSED">>, <<"RUNNING", "FAILED">>}

\* C13: the status of a TestRun moves only from none to RUNNING and from
\* RUNNING to PASSED or FAILED, or the run is created BLOCKED; a TestRun
\* that has completedAt is not changed by any later step, neither the object
\* runTestCase holds nor the entries of a TestSuiteRun's list.
C13_StatusNeverRegresses ==
  [][ /\ \A t \in Tasks :
           (frame'[t].i = frame[t].i /\ frame'[t].testCase = frame[t].testCase) =>
             /\ frame'[t].testRun.status # frame[t].testRun.status =>
                  <<frame[t].testRun.status, frame'[t].testRun.status>> \in StatusMoves
             /\ frame[t].testRun.completedAt => frame'[t].testRun = frame[t].testRun
      /\ \A o \in Tasks :
           Len(suiteRun'[o].testRuns) >= Len(suiteRun[o].testRuns) =>
             \A p \in 1..Len(suiteRun[o].testRuns) :
               suiteRun'[o].testRuns[p] = suiteRun[o].testRuns[p]
    ]_vars

\* A case with a failed assertion has ended FAILED and the suite goes on
\* with its next case.
C13_Witness ==
  \E t \in Tasks :
    /\ AtCaseEnd(t) /\ frame[t].pc = "loop" /\ frame[t].i < frame[t].nCases
    /\ frame[t].testRun.completedAt
    /\ frame[t].testRun.status = "FAILED"
    /\ frame[t].failedAsserts # {}
    /\ Len(suiteRun[t].testRuns) = 2

\* C14: for one crawlPage call the operation handed to retryOperation is
\* invoked at most 3 times, and when crawlPage throws after the retries are
\* used up, the error is that of the last invocation.
C14_AtMostThreeAttempts ==
  /\ crawl.attempts <= 3
  /\ (crawl.pc = "threw" /\ crawl.attempts > 0) => crawl.failedAt = crawl.attempts

\* The fixture a step names: the entry of its value in the valid fixtures
\* when useValidData is set, in the invalid fixtures otherwise.
NamedFixture(step) ==
  IF step.useValidData THEN Lookup(step.testData.valid, step.value)
  ELSE Lookup(step.testData.invalid, step.value)

\* C15: a step with test data whose value is a fixture key is executed with
\* the fixture of that key (valid or invalid, after useValidData), and with
\* null when the key has no entry; the resolution raises no error.
C15_FixtureValueUsed ==
  (exec.pc # "idle" /\ exec.step.testData.present /\ exec.step.value = "user") =>
    /\ exec.value = IF Falsy(NamedFixture(exec.step)) THEN Null
                    ELSE NamedFixture(exec.step)
    /\ exec.error \in {NoError, "missingValue", "unsupported", "driver"}

\* C17: a step whose action is click, hover, submit, check, uncheck or clear
\* makes a driver call on the resolved selector and does not fail as an
\* unsupported action.
C17_InteractionsSupported ==
  (exec.pc # "idle"
   /\ exec.step.action \in {"click", "hover", "submit", "check", "uncheck", "clear"}) =>
    /\ exec.error # "unsupported"
    /\ exec.calls # <<>>
    /\ exec.calls[1].target = exec.selector

\* The query string of a Selector.
QueryOf(selector) ==
  CASE ~selector.present -> ""
    [] selector.present /\ selector.type = "id" -> "#" \o selector.value
    [] selector.present /\ selector.type = "name" -> "[name=\"" \o selector.value \o "\"]"
    [] selector.present /\ selector.type = "xpath" -> "xpath=" \o selector.value
    [] selector.present /\ selector.type = "linkText" -> "text=" \o selector.value
    [] selector.present /\ selector.type = "className" -> "." \o selector.value
    [] OTHER -> selector.value

C16_MissingValueFailsCase ==
  \A t \in Tasks :
    frame[t].stepError = "missingValue" =>
      /\ frame[t].failedCalls = <<>>
      /\ frame[t].pc \in {"loop", "finally"} =>
           /\ frame[t].error = NoError
           /\ frame[t].testRun.status = "FAILED"
           /\ frame[t].testRun.screenshot
           /\ testRuns[frame[t].testCase.id].status = "FAILED"

\* The page of the scenario: one form with a bounding box that holds two
\* visible text inputs and one visible submit control, in any order, and one
\* hidden button outside the form.
IsTextInput(c) == c.tag = "input" /\ c.type = "text" /\ c.visible /\ c.box
IsSubmit(c) == c.type = "submit" /\ c.visible /\ c.box
ScenarioPage(page) ==
  /\ Len(page.form) = 1 /\ page.form[1].box
  /\ Len(page.form[1].fields) = 3
  /\ Cardinality({k \in 1..3 : IsTextInput(page.form[1].fields[k])}) = 2
  /\ Cardinality({k \in 1..3 : IsSubmit(page.form[1].fields[k])}) = 1
  /\ Len(page.loose) = 1
  /\ page.loose[1].tag = "button" /\ page.loose[1].type = "button"
  /\ ~page.loose[1].visible

OfType(elements, type) == SelectSeq(elements, LAMBDA e : e.type = type)

\* C19 as stated: the crawl of the scenario page returns exactly one form
\* element, with 2 child selectors, and no button element.
C19_OneFormNoButton ==
  (scan.pc = "returned" /\ ScenarioPage(scan.page)) =>
    /\ Len(OfType(scan.elements, "form")) = 1
    /\ Len(OfType(scan.elements, "form")[1].childElements) = 2
    /\ Len(OfType(scan.elements, "button")) = 0

\* C19, amended: the crawl of the scenario page returns exactly one form
\* element, whose child selectors are those of the input, select and
\* textarea elements of the form (2 when the submit control is a button
\* element, 3 when it is an input of type submit), and exactly one button
\* element, the submit control of the form; the hidden button is left out.
C19_OneFormSubmitIsButton ==
  (scan.pc = "returned" /\ ScenarioPage(scan.page)) =>
    LET forms == OfType(scan.elements, "form")
        buttons == OfType(scan.elements, "button")
    IN /\ Len(forms) = 1
       /\ Len(forms[1].childElements) =
            Cardinality({k \in 1..3 : scan.page.form[1].fields[k].tag = "input"})
       /\ Len(forms[1].childElements) \in {2, 3}
       /\ Len(buttons) = 1
       /\ \E k \in 1..3 : /\ IsSubmit(scan.page.form[1].fields[k])
                          /\ buttons[1].identifier.value = FieldIds[k]
       /\ Len(OfType(scan.elements, "input")) = 2

\* The scenario page, its submit control a button element and its hidden
\* button one that has a bounding box, has been crawled.
C19_Witness ==
  /\ scan.pc = "returned" /\ ScenarioPage(scan.page)
  /\ scan.page.form[1].fields[3].tag = "button"
  /\ scan.page.loose[1].box
  /\ Len(OfType(scan.elements, "form")[1].childElements) = 2

\* The records of the call that have completedAt set.
Completed ==
  {clock.pushed[k] : k \in 1..Len(clock.pushed)}
    \cup {r \in {clock.suiteRun} : "completedAt" \in DOMAIN r}
DurationIsDifference(r) ==
  /\ "duration" \in DOMAIN r
  /\ r.duration = GetTime(r.completedAt) - GetTime(r.startedAt)
  /\ r.duration >= 0

\* C20: every TestRun, BLOCKED ones included, and every TestSuiteRun that has
\* completedAt set has duration = completedAt - startedAt in milliseconds,
\* and the duration is not negative.
C20_DurationIsDifference == \A r \in Completed : DurationIsDifference(r)

\* C21: the steps of a case are executed in strictly ascending stepNumber
\* order, whatever their order in the steps array.
DistinctStepNumbers(steps) ==
  \A a, b \in 1..Len(steps) : a # b => steps[a].stepNumber # steps[b].stepNumber
C21_AscendingStepNumbers ==
  DistinctStepNumbers(tcase.steps) =>
    \A a, b \in 1..Len(tcase.calls) : a < b => tcase.calls[a] < tcase.calls[b]

\* Every step whose action executeStep does not dispatch.
UnmatchedSteps ==
  {k \in 1..Len(tcase.steps) :
     tcase.steps[k].action \notin {"navigate", "click", "type", "wait"}}
LoggedOk(k) ==
  \E l \in 1..Len(tcase.stepLogs) : tcase.stepLogs[l] = StepLog(k, TRUE)

C22_CasesInDeclaredOrder ==
  /\ Cardinality({t \in Tasks : frame[t].pc \in CasePcs \cup {"gated"}}) <= 1
  /\ \A t \in Tasks :
       LET recorded == suiteRun[t].testRuns
       IN /\ \A p \in 1..Len(recorded) : recorded[p].testCaseId = p
          /\ frame[t].pc \in CasePcs \cup {"gated"} =>
               Len(recorded) = frame[t].i - 1
          /\ AtCaseEnd(t) => Len(recorded) = frame[t].i

\* A suite of three cases has been processed to its end, one of its cases
\* BLOCKED and one PASSED.
C22_Witness ==
  \E t \in Tasks :
    /\ frame[t].pc = "finally"
    /\ frame[t].i = 3
    /\ Len(suiteRun[t].testRuns) = 3
    /\ Count(suiteRun[t].testRuns, "BLOCKED") = 1
    /\ Count(suiteRun[t].testRuns, "PASSED") = 1

\* C23: under the parallel runAllTestSuites, when the callback of a suite
\* has ended, by returning or by an exception, the browsing context that
\* was created for the suite is closed.
C23_ContextClosedOnEveryPath ==
  \A t \in Tasks :
    (api.op = "runAllParallel" /\ frame[t].pc \in {"done", "threw"}) =>
      context[t] # "open"

\* The suites that are in runTestSuite.
InRunTestSuite == {t \in Tasks : frame[t].pc \notin {"idle", "returned", "threw"}}

C25_FinalizedBeforeRethrow ==
  \A t \in Tasks :
    (frame[t].pc = "threw" /\ frame[t].error # "newContext") =>
      /\ suiteRun[t].testSuiteId = t
      /\ suiteRun[t].completedAt
      /\ suiteRun[t].status \in Terminal

\* runTestSuite of a suite with cases has thrown the exception of the
\* browser launch.
C25_Witness ==
  \E t \in Tasks :
    /\ frame[t].pc = "threw" /\ frame[t].error = "launch"
    /\ suiteRun[t].totalTests > 0
    /\ suiteRun[t].status = "FAILED"

\* C26: every TestRun a suite run has produced, PASSED, FAILED or BLOCKED,
\* results in exactly one log document written by saveTestLogs.
C26_OneLogDocumentPerRun ==
  \A t \in Tasks :
    (AtCaseEnd(t) /\ frame[t].error = NoError
       /\ frame[t].testRun.status \in {"PASSED", "FAILED", "BLOCKED"}) =>
      frame[t].logDocs = 1

\* C27: after cleanup has returned, the response cache, the run registry
\* and the screenshot queue are empty and the browser is closed, its handle
\* null, also when a queued capture failed during the flush.
C27_CleanupLeavesNothing ==
  (maint.op = "cleanup" /\ maint.pc = "returned") =>
    /\ maint.responseCache = {}
    /\ maint.testRuns = {}
    /\ maint.screenshotQueue = <<>>
    /\ ~maint.browser

RECURSIVE Flatten(_)
Flatten(seqs) == IF seqs = <<>> THEN <<>> ELSE Head(seqs) \o Flatten(Tail(seqs))
Times(seq, e) == Cardinality({k \in 1..Len(seq) : seq[k] = e})
Draining == maint.op \in {"processScreenshotQueue", "cleanup"} /\ ~maint.failed

\* C28: while no capture fails, processScreenshotQueue takes the entries off
\* the queue in FIFO order in batches of at most 5, starts a batch only when
\* every capture of the batches before it has ended, captures no entry
\* twice, and returns with the queue empty and every entry captured exactly
\* once; and it does end, by returning or by the failure of a capture.
C28_QueueDrainedInBatches ==
  /\ [](Draining =>
          LET taken == Flatten(maint.batches)
              all == taken \o maint.screenshotQueue
          IN /\ all = [k \in 1..Len(all) |-> k]
             /\ \A b \in 1..Len(maint.batches) :
                  /\ Len(maint.batches[b]) \in 1..BatchSize
                  /\ b < Len(maint.batches) =>
                       /\ Len(maint.batches[b]) = BatchSize
                       /\ \A k \in 1..BatchSize :
                            Times(maint.captured, maint.batches[b][k]) = 1
             /\ \A e \in Entries : Times(maint.captured, e) <= 1
             /\ \A e \in maint.pending : Times(maint.captured, e) = 0
             /\ maint.pc \in {"returned", "clearCache", "close"} =>
                  /\ maint.pending = {}
                  /\ \A k \in 1..Len(taken) : Times(maint.captured, taken[k]) = 1
             /\ (maint.pc = "returned" /\ maint.op = "processScreenshotQueue") =>
                  maint.screenshotQueue = <<>>)
  /\ (maint.op = "processScreenshotQueue") ~>
       (maint.failed \/ (maint.pc = "returned" /\ maint.screenshotQueue = <<>>))

\* processScreenshotQueue has returned after two batches, the first of 5
\* entries, no capture having failed.
C28_Witness ==
  /\ maint.op = "processScreenshotQueue" /\ maint.pc = "returned"
  /\ ~maint.failed
  /\ Len(maint.batches) = 2
  /\ Len(maint.batches[1]) = 5
  /\ Len(maint.captured) = 6

RecoveryPcs == {"recoveryClose", "recoveryDelay", "recoveryInitialize"}
RecoverySteps == <<"close", "delay", "initialize">>
\* monitorMemoryUsage has been called before retryOperation and has ended.
PreSampled == crawl.mon # "none" /\ ~(crawl.mon = "pre" /\ crawl.pc = "monitor")
\* monitorMemoryUsage has been called and has not read heapUsed yet.
SamplePending == crawl.pc = "monitor"

\* C30: whenever monitorMemoryUsage has read a heapUsed above the threshold
\* of 1 GiB the recovery action is performed, in the order close, delay,
\* initialize, the browser handle being null from the close to the launch and
\* non-null after a successful launch; when heapUsed is at or below the
\* threshold nothing is done to the browser. The monitor reads heapUsed once
\* before the operation of the crawl and once after each context that was
\* closed, and the browser handle changes in no other step of crawlPage.
C30_MonitorAndRecovery ==
  /\ [](/\ crawl.recovery =
             SubSeq(RecoverySteps, 1, Len(crawl.recovery))
        /\ crawl.pc \in RecoveryPcs => crawl.heapUsed > MEMORY_THRESHOLD
        /\ crawl.pc = "recoveryClose" => crawl.recovery = <<>> /\ crawl.browser
        /\ crawl.pc = "recoveryDelay" => crawl.recovery = <<"close">> /\ ~crawl.browser
        /\ crawl.pc = "recoveryInitialize" =>
             crawl.recovery = <<"close", "delay">> /\ ~crawl.browser
        /\ (crawl.samples > 0 /\ ~SamplePending /\ crawl.pc \notin RecoveryPcs) =>
             IF crawl.heapUsed > MEMORY_THRESHOLD
               THEN crawl.recovery = RecoverySteps
               ELSE crawl.recovery = <<>>
        /\ crawl.samples =
             (IF PreSampled THEN 1 ELSE 0) + crawl.closed
               - (IF crawl.mon = "post" /\ SamplePending THEN 1 ELSE 0)
        /\ crawl.mon = "post" /\ SamplePending => crawl.context = "closed")
  /\ [][(crawl.browser' # crawl.browser) =>
          crawl.pc \in {"idle", "recoveryClose", "recoveryInitialize"}]_vars
  /\ [][crawl.pc = "recoveryInitialize" =>
          (crawl'.browser <=> crawl'.error # "recovery")]_vars
  /\ [][(crawl.pc = "monitor" /\ crawl'.heapUsed <= MEMORY_THRESHOLD) =>
          /\ crawl'.browser = crawl.browser
          /\ crawl'.pc \notin RecoveryPcs]_vars

\* A crawl has returned after two samples, the second above the threshold
\* and followed by a recovery that launched the browser again.
C30_Witness ==
  /\ crawl.pc = "returned"
  /\ crawl.samples = 2
  /\ crawl.heapUsed = MEMORY_THRESHOLD + 1
  /\ crawl.recovery = RecoverySteps
  /\ crawl.browser

\* The recovery action of the last monitorMemoryUsage call has failed: the
\* browser was closed and could not be launched again.
RecoveryFailed == crawl.recovery = RecoverySteps /\ ~crawl.browser

\* C31: when the recovery action fails, before the operation or in the
\* finally block of an invocation, the failure leaves crawlPage: the
\* operation is not invoked again after the failed recovery.
C31_FailedRecoveryIsFatal ==
  RecoveryFailed => crawl.attempts = crawl.failedAt

\* C32: crawlPage called with an empty or malformed url throws the
\* validation error at once: no context is opened, the operation is never
\* invoked or retried, and monitorMemoryUsage and the recovery action are
\* not run; the browser is left as it was.
C32_InvalidUrlFailsFast ==
  (crawl.pc # "idle" /\ crawl.url \in {"", "not a url"}) =>
    /\ crawl.pc = "threw" /\ crawl.error = "invalidUrl"
    /\ crawl.opened = 0 /\ crawl.context = "none"
    /\ crawl.attempts = 0 /\ crawl.retryCount = 0 /\ crawl.errorCount = 0
    /\ crawl.samples = 0 /\ crawl.recovery = <<>> /\ crawl.mon = "none"

\* crawlPage was called with a malformed url on a crawler whose browser is
\* up.
C32_Witness ==
  /\ crawl.pc = "threw"
  /\ crawl.url = "not a url"
  /\ crawl.browser

\* C33: when the evaluation of a node fails, generateUniqueSelector does not
\* throw and the discovery of the elements does not fail.
C33_BadNodeNeverFailsDiscovery ==
  disc.failed # {} => disc.pc # "threw"

\* C34: an element that was found carries exactly the attributes of its node
\* whose value is no longer than 1000 characters, each with its value.
C34_DropsOnlyLongerThanLimit ==
  \A i \in 1..Len(disc.found) :
    LET all == ElementAttributes(disc.inputs[disc.found[i].node])
        kept == disc.found[i].attributes
    IN /\ DOMAIN kept = {a \in DOMAIN all : all[a] <= MaxAttributeLength}
       /\ \A a \in DOMAIN kept : kept[a] = all[a]

\* C35: a case canRunTest accepted has every dependency recorded by the
\* runTestSuite call that is gating it, never by an earlier call.
C35_EligibleByOwnRunsOnly ==
  \A t \in Tasks :
    (frame[t].pc = "gated" /\ frame[t].canRun) =>
      \A d \in frame[t].testCase.dependsOn : testRuns[d].by = t

\* C36: when an attempt of crawlPage has ended (the retry controller has
\* caught its error, the next attempt begins, or crawlPage has returned or
\* thrown), every browsing context crawlPage opened has been closed.
C36_ContextClosedWithAttempt ==
  crawl.pc \in {"retry", "delay", "newContext", "returned", "threw"} =>
    /\ crawl.context # "open"
    /\ crawl.opened = crawl.closed

\* Case q is reached from case p by at most n steps along dependsOn.
RECURSIVE Reaches(_, _, _, _)
Reaches(cases, p, q, n) ==
  /\ n > 0
  /\ p \in DOMAIN cases
  /\ \/ q \in cases[p]
     \/ \E r \in cases[p] : Reaches(cases, r, q, n - 1)

\* Case p depends on itself or is a member of a dependency cycle.
InCycle(cases, p) == Reaches(cases, p, p, Len(cases))

\* Case p depends on a case placed after it, or on an id the suite lacks.
DependsOnLater(cases, p) == \E d \in cases[p] : d > p

\* C37: in one runTestSuite call on a fresh instance the cases are recorded
\* once each, in the order of the suite; a case that depends on itself, on a
\* later case or on a member of a dependency cycle it belongs to is recorded
\* BLOCKED; and the call returns.
C37_NoWaitingForDependencies ==
  /\ [](/\ \A p \in 1..Len(clock.pushed) :
             /\ clock.pushed[p].testCaseId = p
             /\ (DependsOnLater(clock.cases, p) \/ InCycle(clock.cases, p)) =>
                  clock.pushed[p].status = "BLOCKED"
        /\ Len(clock.pushed) <= Len(clock.cases)
        /\ clock.pc = "returned" => Len(clock.pushed) = Len(clock.cases))
  /\ (clock.pc # "idle" ~> clock.pc = "returned")

\* A suite of two cases that depend on each other has returned, both cases
\* recorded BLOCKED.
C37_Witness ==
  /\ clock.pc = "returned"
  /\ clock.cases = <<{2}, {1}>>
  /\ Len(clock.pushed) = 2
  /\ clock.pushed[1].status = "BLOCKED" /\ clock.pushed[2].status = "BLOCKED"

\* C38: the step in which runTestSuiteById finds no suite with the id and
\* throws changes nothing of the runner: no TestSuiteRun is created, the
\* current suite run and the registry are as before, no browser is launched
\* and runTestSuite is not entered; the error is the outcome of the call.
C38_UnknownSuiteChangesNothing ==
  /\ [][(api.pc = "idle" /\ api'.op = "byId" /\ api'.pc = "threw") =>
          /\ UNCHANGED <<browser, currentSuiteRun, suiteRun, testRuns, pages,
                         context, frame, running>>
          /\ api'.result = <<>>]_vars
  /\ [](api.op = "byId" /\ api.pc = "threw" /\ frame[1].pc = "idle" =>
          /\ suiteRun = [t \in Tasks |-> NoSuiteRun]
          /\ testRuns = [c \in CaseIds |-> Absent]
          /\ currentSuiteRun = 0 /\ pages = {} /\ running = 0
          /\ api.result = <<>>)

\* runTestSuiteById has thrown for an unknown id on a crawler whose browser
\* was not launched.
C38_Witness ==
  /\ api.op = "byId" /\ api.pc = "threw"
  /\ frame[1].pc = "idle"
  /\ ~browser

====
